---- MODULE Spec2Model ----
(***************************************************************************)
(* Model of the chart engine of brcp_chatbot: ChartCreator.create_chart    *)
(* (src/chart_creator.py) and the create_matplotlib_chat tool              *)
(* (src/mcp_tools.py), over matplotlib's process-wide pyplot state (the    *)
(* ordered table of open figures, whose last entry is the current figure)  *)
(* and the export directory.                                               *)
(***************************************************************************)
EXTENDS Integers, Sequences, FiniteSets, TLC

\* ------------------------------------------------------------------------
\* Bounds of the model
\* ------------------------------------------------------------------------

\* number of create_chart / tool calls one behaviour starts
MaxCalls == 2

\* number of distinct values uuid4().hex[:8] can take in the model
MaxSuffix == 2

\* ------------------------------------------------------------------------
\* Python values.  Every value is a record of one shape:
\*   ty    : "int" | "float" | "bool" | "str" | "none" | "list" | "tuple" | "dict"
\*   num   : the digits of a number (value * 10^scale)
\*   scale : number of decimal places of a float
\*   str   : the characters of a string
\*   keys  : the keys of a dict, in insertion order
\*   items : the elements of a list/tuple, or the values of a dict by key position
\* ------------------------------------------------------------------------

PyInt(n) == [ty |-> "int", num |-> n, scale |-> 0, str |-> <<>>, keys |-> <<>>, items |-> <<>>]

PyFloat(n, s) == [ty |-> "float", num |-> n, scale |-> s, str |-> <<>>, keys |-> <<>>, items |-> <<>>]

PyBool(b) == [ty |-> "bool", num |-> IF b THEN 1 ELSE 0, scale |-> 0, str |-> <<>>, keys |-> <<>>, items |-> <<>>]

PyStr(s) == [ty |-> "str", num |-> 0, scale |-> 0, str |-> s, keys |-> <<>>, items |-> <<>>]

PyNone == [ty |-> "none", num |-> 0, scale |-> 0, str |-> <<>>, keys |-> <<>>, items |-> <<>>]

PyList(xs) == [ty |-> "list", num |-> 0, scale |-> 0, str |-> <<>>, keys |-> <<>>, items |-> xs]

PyTuple(xs) == [ty |-> "tuple", num |-> 0, scale |-> 0, str |-> <<>>, keys |-> <<>>, items |-> xs]

PyDict(ks, vs) == [ty |-> "dict", num |-> 0, scale |-> 0, str |-> <<>>, keys |-> ks, items |-> vs]

\* k in d
HasKey(d, k) == \E i \in 1..Len(d.keys) : d.keys[i] = k

\* d[k], for a key that is present
Get(d, k) == d.items[CHOOSE i \in 1..Len(d.keys) : d.keys[i] = k]

\* set(d.keys())
KeySet(d) == {d.keys[i] : i \in 1..Len(d.keys)}

\* ------------------------------------------------------------------------
\* Errors raised by validation
\* ------------------------------------------------------------------------

NoError == [exc |-> "none", msg |-> "", field |-> "", value |-> "", allowed |-> <<>>]

ValueError(m, f) == [exc |-> "ValueError", msg |-> m, field |-> f, value |-> "", allowed |-> <<>>]

TypeError(m) == [exc |-> "TypeError", msg |-> m, field |-> "", value |-> "", allowed |-> <<>>]

\* ------------------------------------------------------------------------
\* Validation (ChartCreator._validate_*)
\* ------------------------------------------------------------------------

VALID_CHART_TYPES == <<"pie", "bar", "line", "histogram">>

IsValidChartType(chart_type) ==
    \E i \in 1..Len(VALID_CHART_TYPES) : VALID_CHART_TYPES[i] = chart_type

validate_chart_type(chart_type) ==
    IF ~IsValidChartType(chart_type)
    THEN [exc |-> "ValueError", msg |-> "Invalid chart_type", field |-> "chart_type",
          value |-> chart_type, allowed |-> VALID_CHART_TYPES]
    ELSE NoError

validate_list_not_empty(data, field_name) ==
    IF data.ty # "list" \/ Len(data.items) = 0
    THEN ValueError("must be a non-empty list", field_name)
    ELSE NoError

Digits == {"0", "1", "2", "3", "4", "5", "6", "7", "8", "9"}

\* s.replace(ch, '')
StrRemove(s, ch) == SelectSeq(s, LAMBDA c : c # ch)

\* s.isdigit()
IsDigit(s) == Len(s) > 0 /\ \A i \in 1..Len(s) : s[i] \in Digits

\* isinstance(x, (int, float)); bool is a subclass of int
IsNativeNumber(x) == x.ty \in {"int", "float", "bool"}

\* mutant: only '.' is removed before isdigit()
NumericLooking_DotOnly(x) ==
    x.ty = "str" /\ IsDigit(StrRemove(x.str, "."))

NumericLooking(x) ==
    x.ty = "str" /\ IsDigit(StrRemove(StrRemove(x.str, "."), "-"))

IsNumericElement(x) == IsNativeNumber(x) \/ NumericLooking(x)

\* data is a sequence of values (any iterable the caller hands over)
validate_numeric_list(data, field_name) ==
    IF ~(\A i \in 1..Len(data) : IsNumericElement(data[i]))
    THEN ValueError("must contain only numeric values", field_name)
    ELSE NoError

\* the (labels, values) rule shared by pie and the two paired bar shapes
ValidatePaired(chart_data, lk, vk) ==
    LET labels == Get(chart_data, lk)
        values == Get(chart_data, vk)
    IN  IF validate_list_not_empty(labels, lk) # NoError
        THEN validate_list_not_empty(labels, lk)
        ELSE IF validate_list_not_empty(values, vk) # NoError
        THEN validate_list_not_empty(values, vk)
        ELSE IF validate_numeric_list(values.items, vk) # NoError
        THEN validate_numeric_list(values.items, vk)
        ELSE IF Len(labels.items) # Len(values.items)
        THEN ValueError("must have the same length", vk)
        ELSE NoError

\* mutant: the presence of 'values' is checked before that of 'labels'
validate_pie_data_ValuesFirst(chart_data) ==
    IF ~HasKey(chart_data, "values")
    THEN ValueError("Pie chart requires field", "values")
    ELSE IF ~HasKey(chart_data, "labels")
    THEN ValueError("Pie chart requires field", "labels")
    ELSE ValidatePaired(chart_data, "labels", "values")

validate_pie_data(chart_data) ==
    IF ~HasKey(chart_data, "labels")
    THEN ValueError("Pie chart requires field", "labels")
    ELSE IF ~HasKey(chart_data, "values")
    THEN ValueError("Pie chart requires field", "values")
    ELSE ValidatePaired(chart_data, "labels", "values")

validate_x_y_format(chart_data) == ValidatePaired(chart_data, "x_labels", "y_values")

validate_labels_values_format(chart_data) == ValidatePaired(chart_data, "labels", "values")

\* mutant: the value checked in each mapping is the one under its own second key
validate_data_format_OwnKeyOrder(chart_data) ==
    LET data == Get(chart_data, "data")
        items == data.items
    IN  IF validate_list_not_empty(data, "data") # NoError
        THEN validate_list_not_empty(data, "data")
        ELSE IF items[1].ty = "tuple"
        THEN IF ~(\A i \in 1..Len(items) : items[i].ty = "tuple" /\ Len(items[i].items) = 2)
             THEN ValueError("data tuples must have exactly 2 elements each", "data")
             ELSE validate_numeric_list([i \in 1..Len(items) |-> items[i].items[2]],
                                        "data tuple values")
        ELSE IF items[1].ty = "dict"
        THEN IF ~(\A i \in 1..Len(items) : items[i].ty = "dict" /\ Len(items[i].keys) >= 2)
             THEN ValueError("data dictionaries must have at least 2 keys each", "data")
             ELSE IF ~(\A i \in 1..Len(items) : KeySet(items[i]) = KeySet(items[1]))
             THEN ValueError("all data dictionaries must have the same keys", "data")
             ELSE validate_numeric_list(
                      [i \in 1..Len(items) |-> items[i].items[2]],
                      "data dictionary values")
        ELSE validate_numeric_list(items, "data values")

\* mutant: the key sets of the mappings are not compared
validate_data_format_NoKeyCheck(chart_data) ==
    LET data == Get(chart_data, "data")
        items == data.items
    IN  IF validate_list_not_empty(data, "data") # NoError
        THEN validate_list_not_empty(data, "data")
        ELSE IF items[1].ty = "tuple"
        THEN IF ~(\A i \in 1..Len(items) : items[i].ty = "tuple" /\ Len(items[i].items) = 2)
             THEN ValueError("data tuples must have exactly 2 elements each", "data")
             ELSE validate_numeric_list([i \in 1..Len(items) |-> items[i].items[2]],
                                        "data tuple values")
        ELSE IF items[1].ty = "dict"
        THEN IF ~(\A i \in 1..Len(items) : items[i].ty = "dict" /\ Len(items[i].keys) >= 2)
             THEN ValueError("data dictionaries must have at least 2 keys each", "data")
             ELSE IF \A i \in 1..Len(items) : HasKey(items[i], items[1].keys[2])
             THEN validate_numeric_list(
                      [i \in 1..Len(items) |-> Get(items[i], items[1].keys[2])],
                      "data dictionary values")
             ELSE ValueError("KeyError", "data")
        ELSE validate_numeric_list(items, "data values")

validate_data_format(chart_data) ==
    LET data == Get(chart_data, "data")
        items == data.items
    IN  IF validate_list_not_empty(data, "data") # NoError
        THEN validate_list_not_empty(data, "data")
        ELSE IF items[1].ty = "tuple"
        THEN IF ~(\A i \in 1..Len(items) : items[i].ty = "tuple" /\ Len(items[i].items) = 2)
             THEN ValueError("data tuples must have exactly 2 elements each", "data")
             ELSE validate_numeric_list([i \in 1..Len(items) |-> items[i].items[2]],
                                        "data tuple values")
        ELSE IF items[1].ty = "dict"
        THEN IF ~(\A i \in 1..Len(items) : items[i].ty = "dict" /\ Len(items[i].keys) >= 2)
             THEN ValueError("data dictionaries must have at least 2 keys each", "data")
             ELSE IF ~(\A i \in 1..Len(items) : KeySet(items[i]) = KeySet(items[1]))
             THEN ValueError("all data dictionaries must have the same keys", "data")
             ELSE validate_numeric_list(
                      [i \in 1..Len(items) |-> Get(items[i], items[1].keys[2])],
                      "data dictionary values")
        ELSE validate_numeric_list(items, "data values")

\* mutant: the (labels, values) shape is tried before (x_labels, y_values)
validate_bar_data_LabelsFirst(chart_data) ==
    LET has_x_y_format == HasKey(chart_data, "x_labels") /\ HasKey(chart_data, "y_values")
        has_labels_values == HasKey(chart_data, "labels") /\ HasKey(chart_data, "values")
        has_data_format == HasKey(chart_data, "data")
    IN  IF ~(has_x_y_format \/ has_labels_values \/ has_data_format)
        THEN ValueError("Bar chart requires one of", "")
        ELSE IF has_labels_values THEN validate_labels_values_format(chart_data)
        ELSE IF has_x_y_format THEN validate_x_y_format(chart_data)
        ELSE validate_data_format(chart_data)

\* mutant: a paired shape counts as present as soon as one of its keys is
validate_bar_data_EitherKey(chart_data) ==
    LET has_x_y_format == HasKey(chart_data, "x_labels") /\ HasKey(chart_data, "y_values")
        has_labels_values == HasKey(chart_data, "labels") /\ HasKey(chart_data, "values")
        has_data_format == HasKey(chart_data, "data")
        any_key == \/ HasKey(chart_data, "x_labels") \/ HasKey(chart_data, "y_values")
                   \/ HasKey(chart_data, "labels") \/ HasKey(chart_data, "values")
    IN  IF ~(any_key \/ has_data_format)
        THEN ValueError("Bar chart requires one of", "")
        ELSE IF has_x_y_format THEN validate_x_y_format(chart_data)
        ELSE IF has_labels_values THEN validate_labels_values_format(chart_data)
        ELSE IF has_data_format THEN validate_data_format(chart_data)
        ELSE NoError

validate_bar_data(chart_data) ==
    LET has_x_y_format == HasKey(chart_data, "x_labels") /\ HasKey(chart_data, "y_values")
        has_labels_values == HasKey(chart_data, "labels") /\ HasKey(chart_data, "values")
        has_data_format == HasKey(chart_data, "data")
    IN  IF ~(has_x_y_format \/ has_labels_values \/ has_data_format)
        THEN ValueError("Bar chart requires one of", "")
        ELSE IF has_x_y_format THEN validate_x_y_format(chart_data)
        ELSE IF has_labels_values THEN validate_labels_values_format(chart_data)
        ELSE validate_data_format(chart_data)

\* mutant: x_values are treated as labels, as in the paired bar and pie shapes
validate_line_data_XAsLabels(chart_data) ==
    IF ~HasKey(chart_data, "x_values")
    THEN ValueError("Line chart requires field", "x_values")
    ELSE IF ~HasKey(chart_data, "y_values")
    THEN ValueError("Line chart requires field", "y_values")
    ELSE ValidatePaired(chart_data, "x_values", "y_values")

validate_line_data(chart_data) ==
    IF ~HasKey(chart_data, "x_values")
    THEN ValueError("Line chart requires field", "x_values")
    ELSE IF ~HasKey(chart_data, "y_values")
    THEN ValueError("Line chart requires field", "y_values")
    ELSE LET x_values == Get(chart_data, "x_values")
             y_values == Get(chart_data, "y_values")
         IN  IF validate_list_not_empty(x_values, "x_values") # NoError
             THEN validate_list_not_empty(x_values, "x_values")
             ELSE IF validate_list_not_empty(y_values, "y_values") # NoError
             THEN validate_list_not_empty(y_values, "y_values")
             ELSE IF validate_numeric_list(x_values.items, "x_values") # NoError
             THEN validate_numeric_list(x_values.items, "x_values")
             ELSE IF validate_numeric_list(y_values.items, "y_values") # NoError
             THEN validate_numeric_list(y_values.items, "y_values")
             ELSE IF Len(x_values.items) # Len(y_values.items)
             THEN ValueError("must have the same length", "y_values")
             ELSE NoError

\* mutant: only a negative 'bins' is refused
validate_histogram_data_ZeroBins(chart_data) ==
    IF ~HasKey(chart_data, "data")
    THEN ValueError("Histogram requires field", "data")
    ELSE LET data == Get(chart_data, "data")
         IN  IF validate_list_not_empty(data, "data") # NoError
             THEN validate_list_not_empty(data, "data")
             ELSE IF validate_numeric_list(data.items, "data") # NoError
             THEN validate_numeric_list(data.items, "data")
             ELSE IF HasKey(chart_data, "bins")
                     /\ LET bins == Get(chart_data, "bins")
                        IN  ~(bins.ty \in {"int", "bool"}) \/ bins.num < 0
             THEN ValueError("must be a positive integer", "bins")
             ELSE NoError

validate_histogram_data(chart_data) ==
    IF ~HasKey(chart_data, "data")
    THEN ValueError("Histogram requires field", "data")
    ELSE LET data == Get(chart_data, "data")
         IN  IF validate_list_not_empty(data, "data") # NoError
             THEN validate_list_not_empty(data, "data")
             ELSE IF validate_numeric_list(data.items, "data") # NoError
             THEN validate_numeric_list(data.items, "data")
             ELSE IF HasKey(chart_data, "bins")
                     /\ LET bins == Get(chart_data, "bins")
                        IN  ~(bins.ty \in {"int", "bool"}) \/ bins.num <= 0
             THEN ValueError("must be a positive integer", "bins")
             ELSE NoError

validate_chart_data_format(chart_data, chart_type) ==
    IF chart_data.ty # "dict"
    THEN TypeError("chart_data must be a dictionary")
    ELSE IF chart_type = "pie" THEN validate_pie_data(chart_data)
    ELSE IF chart_type = "bar" THEN validate_bar_data(chart_data)
    ELSE IF chart_type = "line" THEN validate_line_data(chart_data)
    ELSE validate_histogram_data(chart_data)

\* ------------------------------------------------------------------------
\* Inputs
\* ------------------------------------------------------------------------

\* strings are sequences of characters
S_A == <<"A">>

S_B == <<"B">>

S_x == <<"x">>

S_num == <<"1", ".", "5">>

S_multidot == <<"1", ".", "2", ".", "3">>

\* chart_data values handed to create_chart
SampleData ==
    { PyDict(<<"labels", "values">>,
             <<PyList(<<PyStr(S_A), PyStr(S_B)>>), PyList(<<PyInt(10), PyInt(20)>>)>>),
      PyDict(<<"values">>, <<PyList(<<PyInt(1), PyInt(2)>>)>>),
      PyDict(<<"x_labels", "y_values">>,
             <<PyList(<<PyStr(S_A), PyStr(S_B)>>), PyList(<<PyInt(5), PyStr(S_num)>>)>>),
      PyDict(<<"data">>,
             <<PyList(<<PyTuple(<<PyStr(S_A), PyStr(S_multidot)>>),
                        PyTuple(<<PyStr(S_B), PyInt(2)>>)>>)>>),
      PyDict(<<"x_values", "y_values">>,
             <<PyList(<<PyInt(1), PyInt(2)>>), PyList(<<PyInt(1), PyStr(S_x)>>)>>),
      PyDict(<<"x_values", "y_values">>,
             <<PyList(<<PyInt(1), PyInt(2)>>), PyList(<<PyInt(3), PyInt(4)>>)>>),
      PyDict(<<"data", "bins">>, <<PyList(<<PyInt(1), PyInt(1), PyInt(2)>>), PyInt(0)>>),
      PyDict(<<"data">>, <<PyList(<<PyInt(1), PyInt(2), PyInt(3)>>)>>),
      PyList(<<PyInt(1)>>) }

\* chart_type values handed to create_chart
SampleTypes == {"pie", "bar", "line", "histogram", "scatter"}

\* ChartCreator(export_dir, figsize): a usable directory or one that does not
\* exist; a usable figure size or one matplotlib rejects
ExportDirs == {"exports", "missing"}

FigSizes == {<<12, 8>>, <<0, 8>>}

Callers == {"c1", "c2"}

\* uuid.uuid4().hex[:8]
Hex8 == 1..MaxSuffix

\* ------------------------------------------------------------------------
\* Bar normalization (ChartCreator._extract_bar_data, _convert_to_numeric)
\* ------------------------------------------------------------------------

DigitChars == <<"0", "1", "2", "3", "4", "5", "6", "7", "8", "9">>

DigitVal(c) == (CHOOSE i \in 1..Len(DigitChars) : DigitChars[i] = c) - 1

Count(s, ch) == Len(SelectSeq(s, LAMBDA c : c = ch))

\* float(s) succeeds, for s made of digits, '.' and '-' with at least one digit:
\* at most one '.', and a '-' only as the first character
FloatParses(s) ==
    /\ Count(s, ".") <= 1
    /\ Count(s, "-") <= 1
    /\ (Count(s, "-") = 1 => s[1] = "-")

RECURSIVE DigitsValue(_)
DigitsValue(s) ==
    IF s = <<>> THEN 0 ELSE 10 * DigitsValue(SubSeq(s, 1, Len(s) - 1)) + DigitVal(s[Len(s)])

RECURSIVE NormFloat(_, _)
NormFloat(n, sc) == IF sc > 0 /\ n % 10 = 0 THEN NormFloat(n \div 10, sc - 1) ELSE PyFloat(n, sc)

\* float(s) for a string float accepts
ParseFloat(s) ==
    LET dot == IF Count(s, ".") = 0 THEN Len(s) + 1
               ELSE CHOOSE i \in 1..Len(s) : s[i] = "."
        sc == IF Count(s, ".") = 0 THEN 0 ELSE Len(s) - dot
        mag == DigitsValue(StrRemove(StrRemove(s, "."), "-"))
    IN  NormFloat(IF Count(s, "-") = 1 THEN 0 - mag ELSE mag, sc)

\* mutant: the fallback is the one-element list [1]
convert_to_numeric_ShortFallback(values) ==
    IF \E i \in 1..Len(values) : NumericLooking(values[i]) /\ ~FloatParses(values[i].str)
    THEN <<PyInt(1)>>
    ELSE [i \in 1..Len(values) |->
            IF NumericLooking(values[i]) THEN ParseFloat(values[i].str)
            ELSE IF IsNativeNumber(values[i]) THEN values[i]
            ELSE PyInt(0)]

\* mutant: only the element float() refuses becomes 1
convert_to_numeric_PartialFallback(values) ==
    [i \in 1..Len(values) |->
        IF NumericLooking(values[i])
        THEN IF FloatParses(values[i].str) THEN ParseFloat(values[i].str) ELSE PyInt(1)
        ELSE IF IsNativeNumber(values[i]) THEN values[i]
        ELSE PyInt(0)]

\* values is a sequence of values; the result is a new list
convert_to_numeric(values) ==
    IF \E i \in 1..Len(values) : NumericLooking(values[i]) /\ ~FloatParses(values[i].str)
    THEN [i \in 1..Len(values) |-> PyInt(1)]
    ELSE [i \in 1..Len(values) |->
            IF NumericLooking(values[i]) THEN ParseFloat(values[i].str)
            ELSE IF IsNativeNumber(values[i]) THEN values[i]
            ELSE PyInt(0)]

RECURSIVE IntChars(_)
IntChars(n) == IF n < 10 THEN <<DigitChars[n + 1]>> ELSE Append(IntChars(n \div 10), DigitChars[(n % 10) + 1])

\* mutant: the labels count from 0
ItemLabel_FromZero(i) == PyStr(<<"I", "t", "e", "m", " ">> \o IntChars(i))

\* f"Item {i+1}" for the 0-based index i
ItemLabel(i) == PyStr(<<"I", "t", "e", "m", " ">> \o IntChars(i + 1))

\* mutant: 'data' is looked for before the two paired shapes
extract_bar_data_DataFirst(chart_data) ==
    IF HasKey(chart_data, "data")
    THEN LET data == Get(chart_data, "data").items
         IN  IF data[1].ty = "tuple"
             THEN <<[i \in 1..Len(data) |-> data[i].items[1]],
                    [i \in 1..Len(data) |-> data[i].items[2]]>>
             ELSE IF data[1].ty = "dict"
             THEN <<[i \in 1..Len(data) |-> Get(data[i], data[1].keys[1])],
                    [i \in 1..Len(data) |-> Get(data[i], data[1].keys[2])]>>
             ELSE <<[i \in 1..Len(data) |-> ItemLabel(i - 1)], data>>
    ELSE IF HasKey(chart_data, "x_labels") /\ HasKey(chart_data, "y_values")
    THEN <<Get(chart_data, "x_labels").items, Get(chart_data, "y_values").items>>
    ELSE IF HasKey(chart_data, "labels") /\ HasKey(chart_data, "values")
    THEN <<Get(chart_data, "labels").items, Get(chart_data, "values").items>>
    ELSE <<<<PyStr(<<"N", "o", " ", "D", "a", "t", "a">>)>>, <<PyInt(0)>>>>

\* mutant: each mapping is read by its own key order, not by that of data[0]
extract_bar_data_OwnKeyOrder(chart_data) ==
    IF HasKey(chart_data, "x_labels") /\ HasKey(chart_data, "y_values")
    THEN <<Get(chart_data, "x_labels").items, Get(chart_data, "y_values").items>>
    ELSE IF HasKey(chart_data, "labels") /\ HasKey(chart_data, "values")
    THEN <<Get(chart_data, "labels").items, Get(chart_data, "values").items>>
    ELSE IF HasKey(chart_data, "data")
    THEN LET data == Get(chart_data, "data").items
         IN  IF data[1].ty = "tuple"
             THEN <<[i \in 1..Len(data) |-> data[i].items[1]],
                    [i \in 1..Len(data) |-> data[i].items[2]]>>
             ELSE IF data[1].ty = "dict"
             THEN <<[i \in 1..Len(data) |-> data[i].items[1]],
                    [i \in 1..Len(data) |-> data[i].items[2]]>>
             ELSE <<[i \in 1..Len(data) |-> ItemLabel(i - 1)], data>>
    ELSE <<<<PyStr(<<"N", "o", " ", "D", "a", "t", "a">>)>>, <<PyInt(0)>>>>

\* the (x_labels, y_values) pair, each a sequence of values
extract_bar_data(chart_data) ==
    IF HasKey(chart_data, "x_labels") /\ HasKey(chart_data, "y_values")
    THEN <<Get(chart_data, "x_labels").items, Get(chart_data, "y_values").items>>
    ELSE IF HasKey(chart_data, "labels") /\ HasKey(chart_data, "values")
    THEN <<Get(chart_data, "labels").items, Get(chart_data, "values").items>>
    ELSE IF HasKey(chart_data, "data")
    THEN LET data == Get(chart_data, "data").items
         IN  IF data[1].ty = "tuple"
             THEN <<[i \in 1..Len(data) |-> data[i].items[1]],
                    [i \in 1..Len(data) |-> data[i].items[2]]>>
             ELSE IF data[1].ty = "dict"
             THEN <<[i \in 1..Len(data) |-> Get(data[i], data[1].keys[1])],
                    [i \in 1..Len(data) |-> Get(data[i], data[1].keys[2])]>>
             ELSE <<[i \in 1..Len(data) |-> ItemLabel(i - 1)], data>>
    ELSE <<<<PyStr(<<"N", "o", " ", "D", "a", "t", "a">>)>>, <<PyInt(0)>>>>

\* ------------------------------------------------------------------------
\* What a chart shows (the artists _create_<kind>_chart puts on its axes)
\* ------------------------------------------------------------------------

NoArt == [kind |-> "", labels |-> <<>>, values |-> <<>>]

create_pie_chart(chart_data) ==
    [kind |-> "pie", labels |-> Get(chart_data, "labels").items,
     values |-> Get(chart_data, "values").items]

create_bar_chart(chart_data) ==
    LET xy == extract_bar_data(chart_data)
    IN  [kind |-> "bar", labels |-> xy[1], values |-> convert_to_numeric(xy[2])]

create_line_chart(chart_data) ==
    [kind |-> "line", labels |-> Get(chart_data, "x_values").items,
     values |-> Get(chart_data, "y_values").items]

create_histogram_chart(chart_data) ==
    [kind |-> "histogram", labels |-> <<>>, values |-> Get(chart_data, "data").items]

\* getattr(self, f'_create_{chart_type}_chart')(ax, chart_data)
ChartArt(chart_data, chart_type) ==
    IF chart_type = "pie" THEN create_pie_chart(chart_data)
    ELSE IF chart_type = "bar" THEN create_bar_chart(chart_data)
    ELSE IF chart_type = "line" THEN create_line_chart(chart_data)
    ELSE create_histogram_chart(chart_data)

\* mutant: bar values are converted in place, in the caller's y_values list
ChartDataAfterDraw_InPlace(chart_data, chart_type) ==
    IF chart_type = "bar" /\ HasKey(chart_data, "y_values") /\ HasKey(chart_data, "x_labels")
    THEN [chart_data EXCEPT !.items =
            [i \in 1..Len(chart_data.keys) |->
                IF chart_data.keys[i] = "y_values"
                THEN PyList(convert_to_numeric(chart_data.items[i].items))
                ELSE chart_data.items[i]]]
    ELSE chart_data

\* the caller's chart_data object after the drawing code ran on it: no statement
\* of _create_<kind>_chart, _extract_bar_data or _convert_to_numeric assigns into
\* the mapping or into one of its lists (converted values go to a new list)
ChartDataAfterDraw(chart_data, chart_type) == chart_data

\* ------------------------------------------------------------------------
\* State
\* ------------------------------------------------------------------------

VARIABLES
    export_dir,      \* ChartCreator.export_dir
    figsize,         \* ChartCreator.figsize
    figs,            \* pyplot's table of open figures, oldest first; the last is current
    files,           \* the files of the export directory
    pc,              \* per caller: where its create_chart call stands
    chart_data,      \* per caller: the chart_data object it passed
    chart_type,      \* per caller: the chart_type it passed
    chart_filename,  \* per caller: local chart_filename of _create_and_save_chart
    uuid,            \* per caller: the eight hex digits uuid4 gave its call
    err,             \* per caller: the exception e caught in create_chart
    result,          \* per caller: how its last call ended
    logged,          \* per caller: what its last call passed to logging.error
    callNo,          \* per caller: the number of its current (or last) call
    nCalls,          \* calls started so far
    arg0,            \* per caller: chart_data as it was when the call started
    validated,       \* per caller: what validation raised in its last call
    figsBefore,      \* per caller: number of open figures when the call started
    filesBefore,     \* per caller: the export directory when the call started
    returns,         \* the successful calls so far, in order of return
    probe,           \* input and validation outcome of the first call
    toolReply,       \* what create_matplotlib_chat answered last
    creator0,        \* export_dir and figsize as the constructor set them
    phase,           \* function runs: which function is being run, and how far
    in_data,         \* function runs: the chart_data handed to validation
    in_type,         \* function runs: the chart_type handed to validation
    in_list,         \* function runs: the list handed to the numeric helpers
    in_pairs,        \* function runs: the (label, value) pairs given in every bar shape
    out_err,         \* function runs: what validation raised
    out_art,         \* function runs: what the chart shows
    out_list,        \* function runs: what _convert_to_numeric returned
    out_shapes,      \* function runs: what _extract_bar_data returned, per shape
    in_color,        \* function runs: the background colour handed to the contrast rule
    out_color,       \* function runs: the text colour the contrast rule returned
    processed_message_counts,  \* main.py: thread_id -> messages processed so far
    checkpoint,      \* the checkpointer: thread_id -> the messages of the thread
    rpc,             \* chat_v1: where the request stands
    thread_id,       \* chat_v1: the thread_id of the request
    node,            \* the agent graph: the node that runs next
    steps,           \* the agent graph: the nodes run so far in this invocation
    run_start,       \* DatabaseAgent.run: length of the thread when the run started
    run_result,      \* DatabaseAgent.run: what it returned
    reported,        \* created_files of every finished run, with its thread_id
    outcome,         \* chat_v1: how the request ends (response or HTTP 500)
    closes,          \* chat_v1: calls of close_mcp_server made for this request
    close_logged,    \* close_mcp_server: it caught and logged a failure
    nRequests,       \* requests started so far
    sections,        \* create_pdf_report: the sections of content_structure
    exports_exists,  \* create_pdf_report: the exports directory is there
    section_i,       \* create_pdf_report: the section the loop is at
    elements,        \* create_pdf_report: the flowables collected so far
    report           \* create_pdf_report: where the call stands, and how it ended

vars == <<export_dir, figsize, figs, files, pc, chart_data, chart_type, chart_filename,
          uuid, err, result, logged, callNo, nCalls, arg0, validated, figsBefore, filesBefore,
          returns, probe, toolReply, creator0,
          phase, in_data, in_type, in_list, in_pairs, out_err, out_art, out_list, out_shapes,
          in_color, out_color,
          processed_message_counts, checkpoint, rpc, thread_id, node, steps, run_start,
          run_result, reported, outcome, closes, close_logged, nRequests,
          sections, exports_exists, section_i, elements, report>>

\* the state of a run of the contrast rule
colorVars == <<in_color, out_color>>

ColorIdle == in_color = <<>> /\ out_color = ""

\* the state of the chat endpoint and of the agent
agentVars == <<processed_message_counts, checkpoint, rpc, thread_id, node, steps, run_start,
               run_result, reported, outcome, closes, close_logged, nRequests>>

NoRunResult == [set |-> FALSE, created_files |-> <<>>, error |-> FALSE]

\* the thread_id values of the requests
Threads == {"t1", "t2"}

\* thread_id not in processed_message_counts
NotInMap == 0 - 1

NoOutcome == [status |-> "none", caught |-> ""]

AgentIdle ==
    /\ processed_message_counts = [t \in Threads |-> NotInMap]
    /\ checkpoint = [t \in Threads |-> <<>>]
    /\ rpc = "idle"
    /\ thread_id = ""
    /\ node = "none"
    /\ steps = <<>>
    /\ run_start = 0
    /\ run_result = NoRunResult
    /\ reported = <<>>
    /\ outcome = NoOutcome
    /\ closes = 0
    /\ close_logged = FALSE
    /\ nRequests = 0

\* the state of a create_pdf_report call
reportVars == <<sections, exports_exists, section_i, elements, report>>

ReportIdle ==
    /\ sections = <<>>
    /\ exports_exists = TRUE
    /\ section_i = 0
    /\ elements = <<>>
    /\ report = "idle"

\* the state outside the chart engine and the validators
otherVars == <<colorVars, agentVars, reportVars>>

OtherIdle == ColorIdle /\ AgentIdle /\ ReportIdle

\* the state of the runs of single functions
pureVars == <<phase, in_data, in_type, in_list, in_pairs, out_err, out_art, out_list,
              out_shapes, otherVars>>

\* the state of the chart engine
engineVars == <<export_dir, figsize, figs, files, pc, chart_data, chart_type, chart_filename,
                uuid, err, result, logged, callNo, nCalls, arg0, validated, figsBefore,
                filesBefore, returns, probe, toolReply, creator0>>

NoName == [dir |-> "", prefix |-> "", hex |-> 0, ext |-> ""]

\* mutant: the name does not use the random digits
ChartFilename_Fixed(u) == [dir |-> "", prefix |-> "chart_", hex |-> 0, ext |-> ".png"]

\* f"chart_{uuid.uuid4().hex[:8]}.png", u the eight hex digits drawn
ChartFilename(u) == [dir |-> "", prefix |-> "chart_", hex |-> u, ext |-> ".png"]

\* self.export_dir / chart_filename
ChartPath(dir, name) == [name EXCEPT !.dir = dir]

\* mutant: chart_path is returned
ReturnValue_Path(name, path) == path

\* the value _create_and_save_chart returns
ReturnValue(name, path) == name

NoResult == [status |-> "none", value |-> NoName, err |-> NoError]

Pending == [status |-> "running", value |-> NoName, err |-> NoError]

Returned(v) == [status |-> "returned", value |-> v, err |-> NoError]

Raised(e) == [status |-> "raised", value |-> NoName, err |-> e]

\* an exception raised by matplotlib during the named step
RenderError(step) ==
    [exc |-> "RenderError", msg |-> step, field |-> "", value |-> "", allowed |-> <<>>]

NoProbe == [set |-> FALSE, d |-> PyNone, t |-> "", outcome |-> NoError]

NoReply == [said |-> "", filename |-> NoName, created |-> FALSE]

\* ---- pyplot ----

NewFigure(k, how) == [by |-> k, how |-> how, art |-> NoArt]

\* plt.subplots(): a new figure, registered last, so it becomes the current one
PltSubplots(fs, k) == Append(fs, NewFigure(k, "subplots"))

\* plt.gcf(): the table afterwards; with no open figure a fresh one is created
Gcf(fs, k) == IF fs = <<>> THEN <<NewFigure(k, "gcf")>> ELSE fs

\* plt.close(): destroys the current figure, if there is one
PltClose(fs) == IF fs = <<>> THEN fs ELSE SubSeq(fs, 1, Len(fs) - 1)

\* ax.<method>(...): ax is the axes of the figure call k got from plt.subplots()
AxDraw(fs, k, art) ==
    [i \in 1..Len(fs) |->
        IF fs[i].by = k /\ fs[i].how = "subplots" THEN [fs[i] EXCEPT !.art = art] ELSE fs[i]]

\* Figure.__init__ rejects a size that is not positive
FigsizeValid(sz) == sz[1] > 0 /\ sz[2] > 0

\* the directory exists and is writable
DirUsable(dir) == dir = "exports"

\* writing a file creates it or replaces the file of that name
WriteFile(fs, f) == {g \in fs : g.name # f.name} \cup {f}

FileNames(fs) == {g.name : g \in fs}

\* ---- create_chart ----

\* mutant: the data is checked before the chart type
Validate_DataFirst(d, t) ==
    IF validate_chart_data_format(d, t) # NoError THEN validate_chart_data_format(d, t)
    ELSE validate_chart_type(t)

Validate(d, t) ==
    IF validate_chart_type(t) # NoError THEN validate_chart_type(t)
    ELSE validate_chart_data_format(d, t)

Init ==
    /\ export_dir \in ExportDirs
    /\ figsize \in FigSizes
    /\ figs = <<>>
    /\ files = {}
    /\ pc = [c \in Callers |-> "idle"]
    /\ chart_data = [c \in Callers |-> PyNone]
    /\ chart_type = [c \in Callers |-> ""]
    /\ chart_filename = [c \in Callers |-> NoName]
    /\ uuid = [c \in Callers |-> 0]
    /\ err = [c \in Callers |-> NoError]
    /\ result = [c \in Callers |-> NoResult]
    /\ logged = [c \in Callers |-> NoError]
    /\ callNo = [c \in Callers |-> 0]
    /\ nCalls = 0
    /\ arg0 = [c \in Callers |-> PyNone]
    /\ validated = [c \in Callers |-> NoError]
    /\ figsBefore = [c \in Callers |-> 0]
    /\ filesBefore = [c \in Callers |-> {}]
    /\ returns = <<>>
    /\ probe = NoProbe
    /\ toolReply = NoReply
    /\ creator0 = [export_dir |-> export_dir, figsize |-> figsize]
    /\ OtherIdle
    /\ phase = "off"
    /\ in_data = PyNone
    /\ in_type = ""
    /\ in_list = <<>>
    /\ in_pairs = <<>>
    /\ out_err = NoError
    /\ out_art = NoArt
    /\ out_list = <<>>
    /\ out_shapes = <<>>

\* mutant: the validators run inside the try block, after plt.subplots()
AfterValidation_InsideTry(c, e) ==
    /\ result' = [result EXCEPT ![c] = Pending]
    /\ IF e # NoError
       THEN /\ figs' = PltSubplots(figs, nCalls + 1)
            /\ err' = [err EXCEPT ![c] = e]
            /\ pc' = [pc EXCEPT ![c] = "except"]
       ELSE /\ figs' = figs
            /\ err' = [err EXCEPT ![c] = NoError]
            /\ pc' = [pc EXCEPT ![c] = "subplots"]

\* lines 105-108: an error of either validator leaves create_chart at once, before
\* the try block; otherwise the call goes on to _create_and_save_chart
AfterValidation(c, e) ==
    /\ figs' = figs
    /\ err' = [err EXCEPT ![c] = NoError]
    /\ IF e # NoError
       THEN /\ result' = [result EXCEPT ![c] = Raised(e)]
            /\ pc' = pc
       ELSE /\ result' = [result EXCEPT ![c] = Pending]
            /\ pc' = [pc EXCEPT ![c] = "subplots"]

\* create_chart entered: both validations run, outside the try block
create_chart(c, d, t) ==
    /\ pc[c] = "idle"
    /\ nCalls < MaxCalls
    /\ nCalls' = nCalls + 1
    /\ callNo' = [callNo EXCEPT ![c] = nCalls + 1]
    /\ chart_data' = [chart_data EXCEPT ![c] = d]
    /\ chart_type' = [chart_type EXCEPT ![c] = t]
    /\ arg0' = [arg0 EXCEPT ![c] = d]
    /\ figsBefore' = [figsBefore EXCEPT ![c] = Len(figs)]
    /\ filesBefore' = [filesBefore EXCEPT ![c] = files]
    /\ chart_filename' = [chart_filename EXCEPT ![c] = NoName]
    /\ uuid' = [uuid EXCEPT ![c] = 0]
    /\ logged' = [logged EXCEPT ![c] = NoError]
    /\ LET e == Validate(d, t)
       IN  /\ validated' = [validated EXCEPT ![c] = e]
           /\ probe' = IF probe.set THEN probe
                       ELSE [set |-> TRUE, d |-> d, t |-> t, outcome |-> e]
           /\ AfterValidation(c, e)
    /\ UNCHANGED <<export_dir, figsize, files, returns, toolReply, creator0, pureVars>>

\* plt.style.use(...); fig, ax = plt.subplots(figsize=self.figsize)
Subplots(c) ==
    /\ pc[c] = "subplots"
    /\ IF FigsizeValid(figsize)
       THEN /\ figs' = PltSubplots(figs, callNo[c])
            /\ pc' = [pc EXCEPT ![c] = "draw"]
            /\ err' = err
       ELSE /\ figs' = figs
            /\ err' = [err EXCEPT ![c] = RenderError("subplots")]
            /\ pc' = [pc EXCEPT ![c] = "except"]
    /\ UNCHANGED <<export_dir, figsize, files, chart_data, chart_type, chart_filename, uuid,
                   result, logged, callNo, nCalls, arg0, validated, figsBefore,
                   filesBefore, returns, probe, toolReply, creator0, pureVars>>

\* chart_creator(ax, chart_data); ax.set_title(...): matplotlib may raise on data
\* that passed validation
Draw(c) ==
    /\ pc[c] = "draw"
    /\ \E ok \in BOOLEAN :
        IF ok
        THEN /\ figs' = AxDraw(figs, callNo[c], ChartArt(chart_data[c], chart_type[c]))
             /\ chart_data' = [chart_data EXCEPT
                                  ![c] = ChartDataAfterDraw(chart_data[c], chart_type[c])]
             /\ pc' = [pc EXCEPT ![c] = "layout"]
             /\ err' = err
        ELSE /\ figs' = figs
             /\ chart_data' = chart_data
             /\ err' = [err EXCEPT ![c] = RenderError("draw")]
             /\ pc' = [pc EXCEPT ![c] = "except"]
    /\ UNCHANGED <<export_dir, figsize, files, chart_type, chart_filename, uuid,
                   result, logged, callNo, nCalls, arg0, validated, figsBefore,
                   filesBefore, returns, probe, toolReply, creator0, pureVars>>

\* plt.tight_layout(); plt.subplots_adjust(bottom=0.2) for bar: both act on plt.gcf()
Layout(c) ==
    /\ pc[c] = "layout"
    /\ figs' = Gcf(figs, callNo[c])
    /\ pc' = [pc EXCEPT ![c] = "savefig"]
    /\ UNCHANGED <<export_dir, figsize, files, chart_data, chart_type, chart_filename, uuid,
                   err, result, logged, callNo, nCalls, arg0, validated, figsBefore,
                   filesBefore, returns, probe, toolReply, creator0, pureVars>>

\* what plt.savefig did: wrote the file, raised before creating it, or raised
\* while writing it
SaveOutcomes(dir) == IF DirUsable(dir) THEN {"ok", "error", "partial"} ELSE {"error"}

\* chart_filename = ...; chart_path = ...; plt.savefig(chart_path, ...): saves plt.gcf()
Savefig(c) ==
    /\ pc[c] = "savefig"
    /\ \E u \in Hex8, io \in SaveOutcomes(export_dir) :
        LET name == ChartFilename(u)
            chart_path == ChartPath(export_dir, name)
            fs == Gcf(figs, callNo[c])
            cur == fs[Len(fs)]
            written == [name |-> ChartFilename(chart_path.hex), by |-> callNo[c],
                        fig |-> [by |-> cur.by, how |-> cur.how],
                        drawn |-> (cur.art # NoArt), complete |-> (io = "ok")]
        IN  /\ figs' = fs
            /\ chart_filename' = [chart_filename EXCEPT ![c] = name]
            /\ uuid' = [uuid EXCEPT ![c] = u]
            /\ files' = IF io = "error" THEN files ELSE WriteFile(files, written)
            /\ IF io = "ok"
               THEN /\ pc' = [pc EXCEPT ![c] = "close"]
                    /\ err' = err
               ELSE /\ pc' = [pc EXCEPT ![c] = "except"]
                    /\ err' = [err EXCEPT ![c] = RenderError("savefig")]
    /\ UNCHANGED <<export_dir, figsize, chart_data, chart_type,
                   result, logged, callNo, nCalls, arg0, validated, figsBefore,
                   filesBefore, returns, probe, toolReply, creator0, pureVars>>

\* plt.close(); return chart_filename
Close(c) ==
    /\ pc[c] = "close"
    /\ figs' = PltClose(figs)
    /\ LET value == ReturnValue(chart_filename[c], ChartPath(export_dir, chart_filename[c]))
       IN  /\ result' = [result EXCEPT ![c] = Returned(value)]
           /\ returns' = Append(returns, [call |-> callNo[c], value |-> value, uuid |-> uuid[c],
                          asFirst |-> (arg0[c] = probe.d /\ chart_type[c] = probe.t)])
    /\ pc' = [pc EXCEPT ![c] = "idle"]
    /\ UNCHANGED <<export_dir, figsize, files, chart_data, chart_type, chart_filename, uuid,
                   err, logged, callNo, nCalls, arg0, validated, figsBefore,
                   filesBefore, probe, toolReply, creator0, pureVars>>

\* mutant: the handler logs and re-raises without closing the figure
Except_NoClose(c) ==
    /\ pc[c] = "except"
    /\ logged' = [logged EXCEPT ![c] = err[c]]
    /\ result' = [result EXCEPT ![c] = Raised(err[c])]
    /\ pc' = [pc EXCEPT ![c] = "idle"]
    /\ UNCHANGED <<export_dir, figsize, figs, files, chart_data, chart_type, chart_filename,
                   uuid, err, callNo, nCalls, arg0, validated, figsBefore,
                   filesBefore, returns, probe, toolReply, creator0, pureVars>>

\* mutant: the handler logs, closes and returns None, as _create_matplotlib_chart does
Except_ReturnNone(c) ==
    /\ pc[c] = "except"
    /\ logged' = [logged EXCEPT ![c] = err[c]]
    /\ figs' = PltClose(figs)
    /\ result' = [result EXCEPT ![c] = Returned(NoName)]
    /\ pc' = [pc EXCEPT ![c] = "idle"]
    /\ UNCHANGED <<export_dir, figsize, files, chart_data, chart_type, chart_filename,
                   uuid, err, callNo, nCalls, arg0, validated, figsBefore,
                   filesBefore, returns, probe, toolReply, creator0, pureVars>>

\* except Exception as e: logging.error(...); plt.close(); raise e
Except(c) ==
    /\ pc[c] = "except"
    /\ logged' = [logged EXCEPT ![c] = err[c]]
    /\ figs' = PltClose(figs)
    /\ result' = [result EXCEPT ![c] = Raised(err[c])]
    /\ pc' = [pc EXCEPT ![c] = "idle"]
    /\ UNCHANGED <<export_dir, figsize, files, chart_data, chart_type, chart_filename, uuid,
                   err, callNo, nCalls, arg0, validated, figsBefore,
                   filesBefore, returns, probe, toolReply, creator0, pureVars>>

\* the one thread of a sequential program
Main == "c1"

Next ==
    \/ \E d \in SampleData, t \in SampleTypes : create_chart(Main, d, t)
    \/ Subplots(Main)
    \/ Draw(Main)
    \/ Layout(Main)
    \/ Savefig(Main)
    \/ Close(Main)
    \/ Except(Main)

Spec == Init /\ [][Next]_vars

\* two threads of one process calling create_chart on the same ChartCreator
NextConc ==
    \E c \in Callers :
        \/ \E d \in SampleData, t \in SampleTypes : create_chart(c, d, t)
        \/ Subplots(c)
        \/ Draw(c)
        \/ Layout(c)
        \/ Savefig(c)
        \/ Close(c)
        \/ Except(c)

SpecConc == Init /\ [][NextConc]_vars

\* ---- the create_matplotlib_chat tool (src/mcp_tools.py) ----

\* chart_data.get(...) raises AttributeError when chart_data is no mapping
ToolDrawRaises(d, t) == d.ty # "dict"

\* what _create_matplotlib_chart returns: the filename, or None (NoName) from its
\* except block
create_matplotlib_chart_result(failed, name) == IF failed THEN NoName ELSE name

\* the string create_matplotlib_chat returns, whatever filename is
ToolReply(filename, created) ==
    [said |-> "Chart image created successfully", filename |-> filename, created |-> created]

\* one call of the tool: _create_matplotlib_chart runs without any validation,
\* catches every exception, closes the current figure and returns None
create_matplotlib_chat(d, t) ==
    /\ \A c \in Callers : pc[c] = "idle"
    /\ nCalls < MaxCalls
    /\ nCalls' = nCalls + 1
    /\ \E ok \in BOOLEAN, u \in Hex8, io \in SaveOutcomes("exports") :
        LET k == nCalls + 1
            drawFailed == ToolDrawRaises(d, t) \/ ~ok
            failed == drawFailed \/ io # "ok"
            name == ChartFilename(u)
            opened == PltSubplots(figs, k)
            written == [name |-> name, by |-> k, fig |-> [by |-> k, how |-> "subplots"],
                        drawn |-> TRUE, complete |-> (io = "ok")]
        IN  /\ figs' = PltClose(opened)
            /\ files' = IF drawFailed \/ io = "error" THEN files ELSE WriteFile(files, written)
            /\ toolReply' = ToolReply(create_matplotlib_chart_result(failed, name), ~failed)
    /\ UNCHANGED <<export_dir, figsize, pc, chart_data, chart_type, chart_filename, uuid,
                   err, result, logged, callNo, arg0, validated, figsBefore, filesBefore,
                   returns, probe, creator0, pureVars>>

NextTool ==
    \/ Next
    \/ \E d \in SampleData, t \in SampleTypes : create_matplotlib_chat(d, t)

SpecTool == Init /\ [][NextTool]_vars

\* ------------------------------------------------------------------------
\* Runs of single functions: validation, rendering data, the numeric helpers
\* and bar normalization, each applied to inputs drawn from bounded sets
\* ------------------------------------------------------------------------

\* longest list among the generated inputs
MaxItems == 2

\* all sequences over S of length at most n
SeqsUpTo(S, n) == UNION {[1..k -> S] : k \in 0..n}

\* a key that is not in the mapping
Absent == [ty |-> "absent", num |-> 0, scale |-> 0, str |-> <<>>, keys |-> <<>>, items |-> <<>>]

\* the dict with keys ks[i] -> vs[i], leaving out the absent ones
MkDict(ks, vs) ==
    LET kv == [i \in 1..Len(ks) |-> [k |-> ks[i], v |-> vs[i]]]
        kept == SelectSeq(kv, LAMBDA e : e.v # Absent)
    IN  PyDict([i \in 1..Len(kept) |-> kept[i].k], [i \in 1..Len(kept) |-> kept[i].v])

S_empty == <<>>

S_dot == <<".">>

S_minus == <<"-">>

S_12 == <<"1", "2">>

S_neg5 == <<"-", "5">>

S_dminus5 == <<"-", "-", "5">>

S_5minus == <<"5", "-">>

S_1a == <<"1", "a">>

\* elements of the lists handed to _validate_numeric_list and _convert_to_numeric
ListElements ==
    { PyInt(3), PyFloat(25, 1), PyBool(TRUE), PyNone,
      PyStr(S_empty), PyStr(S_dot), PyStr(S_minus), PyStr(S_12), PyStr(S_neg5),
      PyStr(S_num), PyStr(S_multidot), PyStr(S_dminus5), PyStr(S_5minus), PyStr(S_1a),
      PyStr(S_x), PyTuple(<<PyStr(S_A), PyInt(1)>>) }

ListInputs == SeqsUpTo(ListElements, MaxItems)

\* values of a label field and of a value field
LabelLists == {PyList(xs) : xs \in SeqsUpTo({PyStr(S_A), PyStr(S_B)}, MaxItems)}

ValueElements == {PyInt(1), PyStr(S_num), PyStr(S_multidot), PyStr(S_x)}

ValueLists == {PyList(xs) : xs \in SeqsUpTo(ValueElements, MaxItems)}

LabelField == LabelLists \cup {PyStr(S_A), Absent}

ValueField == ValueLists \cup {PyInt(3), Absent}

PieInputs ==
    { MkDict(<<"labels", "values", "colors", "title">>, <<l, v, c, t>>) :
        l \in LabelField, v \in ValueField,
        c \in {Absent, PyStr(S_x)}, t \in {Absent, PyInt(3)} }

LineInputs ==
    { MkDict(<<"x_values", "y_values">>, <<x, y>>) : x \in ValueField, y \in ValueField }

BinsField ==
    { Absent, PyInt(10), PyInt(1), PyInt(0), PyInt(0 - 1), PyFloat(25, 1), PyFloat(2, 0),
      PyBool(TRUE), PyBool(FALSE), PyStr(<<"5">>), PyNone }

HistogramInputs ==
    { MkDict(<<"data", "bins">>, <<d, b>>) : d \in ValueField, b \in BinsField }

\* elements of a bar 'data' list
D_name_value(l, v) == PyDict(<<"name", "value">>, <<l, v>>)

D_value_name(l, v) == PyDict(<<"value", "name">>, <<v, l>>)

DataElements ==
    { PyTuple(<<PyStr(S_A), PyInt(1)>>), PyTuple(<<PyStr(S_B), PyStr(S_num)>>),
      PyTuple(<<PyStr(S_A), PyInt(1), PyInt(2)>>), PyTuple(<<PyInt(1)>>),
      D_name_value(PyStr(S_A), PyInt(1)), D_value_name(PyStr(S_B), PyInt(2)),
      PyDict(<<"name">>, <<PyStr(S_A)>>),
      PyDict(<<"label", "value">>, <<PyStr(S_A), PyInt(1)>>),
      PyDict(<<"name", "value", "note">>, <<PyStr(S_A), PyInt(1), PyStr(S_x)>>),
      PyInt(1), PyStr(S_num), PyStr(S_x) }

DataLists == {PyList(xs) : xs \in SeqsUpTo(DataElements, MaxItems)}

\* bar inputs with 'data' alone
BarDataInputs == {MkDict(<<"data">>, <<d>>) : d \in DataLists \cup {PyInt(3)}}

BarLabelField == {Absent, PyList(<<PyStr(S_A), PyStr(S_B)>>), PyList(<<>>)}

BarValueField ==
    { Absent, PyList(<<PyInt(1), PyInt(2)>>), PyList(<<PyInt(1), PyStr(S_x)>>),
      PyList(<<PyStr(S_multidot), PyInt(2)>>), PyList(<<PyInt(1)>>) }

BarDataField ==
    { Absent, PyList(<<PyTuple(<<PyStr(S_A), PyInt(1)>>), PyTuple(<<PyStr(S_B), PyInt(2)>>)>>),
      PyList(<<PyInt(1), PyTuple(<<PyStr(S_A), PyInt(1)>>)>>),
      PyList(<<PyInt(1), PyInt(2), PyInt(3)>>) }

\* bar inputs with any combination of the five keys
BarKeyInputs ==
    { MkDict(<<"x_labels", "y_values", "labels", "values", "data">>, <<xl, yv, l, v, d>>) :
        xl \in BarLabelField, yv \in BarValueField, l \in BarLabelField,
        v \in BarValueField, d \in BarDataField }

BarInputs == BarDataInputs \cup BarKeyInputs

ChartInputs ==
    ({"pie"} \X PieInputs) \cup ({"bar"} \X BarInputs)
        \cup ({"line"} \X LineInputs) \cup ({"histogram"} \X HistogramInputs)

\* the underlying (label, value) pairs of a bar chart
PairInputs ==
    SeqsUpTo({PyStr(S_A), PyStr(S_B)} \X {PyInt(1), PyInt(2), PyStr(S_num)}, MaxItems)
        \ {<<>>}

Column(pairs, j) == [i \in 1..Len(pairs) |-> pairs[i][j]]

\* the same pairs in each accepted bar shape
AsXY(pairs) == PyDict(<<"x_labels", "y_values">>,
                      <<PyList(Column(pairs, 1)), PyList(Column(pairs, 2))>>)

AsLabelsValues(pairs) == PyDict(<<"labels", "values">>,
                                <<PyList(Column(pairs, 1)), PyList(Column(pairs, 2))>>)

AsTuples(pairs) ==
    PyDict(<<"data">>,
           <<PyList([i \in 1..Len(pairs) |-> PyTuple(<<pairs[i][1], pairs[i][2]>>)])>>)

\* two-key mappings; every element but the first lists its keys the other way round
AsMappings(pairs) ==
    PyDict(<<"data">>,
           <<PyList([i \in 1..Len(pairs) |->
                        IF i = 1 THEN D_name_value(pairs[i][1], pairs[i][2])
                        ELSE D_value_name(pairs[i][1], pairs[i][2])])>>)

AsBareValues(pairs) == PyDict(<<"data">>, <<PyList(Column(pairs, 2))>>)

\* ---- the contrast rule (ChartCreator._get_contrasting_text_color) ----

\* a colour channel c stands for the value c / ChannelScale, from 0 to 1
ChannelScale == 10

Channels == 0..ChannelScale

\* RGB and RGBA colours (a wedge's get_facecolor() is RGBA), and shorter sequences
ColorInputs ==
    { <<r, g, b>> : r \in Channels, g \in Channels, b \in Channels }
        \cup { <<r, g, b, a>> : r \in Channels, g \in Channels, b \in Channels,
                                a \in {0, ChannelScale} }
        \cup SeqsUpTo({0, ChannelScale}, 2)

\* 0.299 * r + 0.587 * g + 0.114 * b, in units of 1 / (1000 * ChannelScale)
Luminance(r, g, b) == 299 * r + 587 * g + 114 * b

\* mutant: luminance 0.5 counts as a light background
get_contrasting_text_color_AtLeast(background_color) ==
    IF Len(background_color) >= 3
    THEN IF Luminance(background_color[1], background_color[2], background_color[3])
                >= 500 * ChannelScale
         THEN "black" ELSE "white"
    ELSE "black"

get_contrasting_text_color(background_color) ==
    IF Len(background_color) >= 3
    THEN IF Luminance(background_color[1], background_color[2], background_color[3])
                > 500 * ChannelScale
         THEN "black" ELSE "white"
    ELSE "black"

InitPure ==
    /\ AgentIdle
    /\ ReportIdle
    /\ export_dir = "exports"
    /\ figsize = <<12, 8>>
    /\ figs = <<>>
    /\ files = {}
    /\ pc = [c \in Callers |-> "idle"]
    /\ chart_data = [c \in Callers |-> PyNone]
    /\ chart_type = [c \in Callers |-> ""]
    /\ chart_filename = [c \in Callers |-> NoName]
    /\ uuid = [c \in Callers |-> 0]
    /\ err = [c \in Callers |-> NoError]
    /\ result = [c \in Callers |-> NoResult]
    /\ logged = [c \in Callers |-> NoError]
    /\ callNo = [c \in Callers |-> 0]
    /\ nCalls = 0
    /\ arg0 = [c \in Callers |-> PyNone]
    /\ validated = [c \in Callers |-> NoError]
    /\ figsBefore = [c \in Callers |-> 0]
    /\ filesBefore = [c \in Callers |-> {}]
    /\ returns = <<>>
    /\ probe = NoProbe
    /\ toolReply = NoReply
    /\ creator0 = [export_dir |-> export_dir, figsize |-> figsize]
    /\ out_err = NoError
    /\ out_art = NoArt
    /\ out_list = <<>>
    /\ out_shapes = <<>>
    /\ \/ /\ phase = "chart"
          /\ \E in \in ChartInputs : in_type = in[1] /\ in_data = in[2]
          /\ in_list = <<>>
          /\ in_pairs = <<>>
          /\ ColorIdle
       \/ /\ phase = "list"
          /\ in_list \in ListInputs
          /\ in_data = PyNone
          /\ in_type = ""
          /\ in_pairs = <<>>
          /\ ColorIdle
       \/ /\ phase = "pairs"
          /\ in_pairs \in PairInputs
          /\ in_data = PyNone
          /\ in_type = ""
          /\ in_list = <<>>
          /\ ColorIdle
       \/ /\ phase = "color"
          /\ in_color \in ColorInputs
          /\ out_color = ""
          /\ in_data = PyNone
          /\ in_type = ""
          /\ in_list = <<>>
          /\ in_pairs = <<>>

\* self._validate_chart_type(chart_type); self._validate_chart_data_format(...)
ApplyValidate ==
    /\ phase = "chart"
    /\ out_err' = Validate(in_data, in_type)
    /\ phase' = "validated"
    /\ UNCHANGED <<in_data, in_type, in_list, in_pairs, out_art, out_list, out_shapes>>
    /\ UNCHANGED <<engineVars, otherVars>>

\* chart_creator(ax, chart_data), reached only when validation raised nothing
ApplyRender ==
    /\ phase = "validated"
    /\ out_err = NoError
    /\ out_art' = ChartArt(in_data, in_type)
    /\ phase' = "rendered"
    /\ UNCHANGED <<in_data, in_type, in_list, in_pairs, out_err, out_list, out_shapes>>
    /\ UNCHANGED <<engineVars, otherVars>>

\* self._validate_numeric_list(values, ...) and self._convert_to_numeric(values)
ApplyNumeric ==
    /\ phase = "list"
    /\ out_err' = validate_numeric_list(in_list, "values")
    /\ out_list' = convert_to_numeric(in_list)
    /\ phase' = "converted"
    /\ UNCHANGED <<in_data, in_type, in_list, in_pairs, out_art, out_shapes>>
    /\ UNCHANGED <<engineVars, otherVars>>

\* validation and self._extract_bar_data(chart_data) of one bar input
Normalized(d) == [err |-> Validate(d, "bar"), norm |-> extract_bar_data(d)]

\* the pairs given in each shape, each validated and normalized
ApplyExtract ==
    /\ phase = "pairs"
    /\ out_shapes' = << Normalized(AsXY(in_pairs)),
                        Normalized(AsLabelsValues(in_pairs)),
                        Normalized(AsTuples(in_pairs)),
                        Normalized(AsMappings(in_pairs)),
                        Normalized(AsBareValues(in_pairs)) >>
    /\ phase' = "extracted"
    /\ UNCHANGED <<in_data, in_type, in_list, in_pairs, out_err, out_art, out_list>>
    /\ UNCHANGED <<engineVars, otherVars>>

\* text_color = self._get_contrasting_text_color(wedge_color)
ApplyContrast ==
    /\ phase = "color"
    /\ out_color' = get_contrasting_text_color(in_color)
    /\ phase' = "contrasted"
    /\ UNCHANGED <<in_data, in_type, in_list, in_pairs, out_err, out_art, out_list,
                   out_shapes, in_color>>
    /\ UNCHANGED <<engineVars, agentVars, reportVars>>

NextPure ==
    \/ ApplyValidate
    \/ ApplyRender
    \/ ApplyNumeric
    \/ ApplyExtract
    \/ ApplyContrast

SpecPure == InitPure /\ [][NextPure]_vars

\* ------------------------------------------------------------------------
\* The chat endpoint and the agent (src/main.py, src/db_agent.py)
\* ------------------------------------------------------------------------

MaxRequests == 2

\* tool rounds the model lets the LLM ask for in one invocation
MaxRounds == 1

\* tool calls the model lets the LLM put in one message
MaxToolCalls == 1

\* messages of a thread; download: the content contains "Download:"
HumanMessage == [kind |-> "human", tool_calls |-> 0, download |-> FALSE]

\* the LLM's response, with that many tool calls
AIMessage(calls) == [kind |-> "ai", tool_calls |-> calls, download |-> FALSE]

\* AIMessage(content="I apologize, but ..."): no tool_calls given
ApologyMessage == [kind |-> "ai", tool_calls |-> 0, download |-> FALSE]

ToolMessage(dl) == [kind |-> "tool", tool_calls |-> 0, download |-> dl]

\* handle_conversation: the LLM's response, or the apology when anything raised
handle_conversation(raised, calls) ==
    IF raised THEN ApologyMessage ELSE AIMessage(calls)

\* mutant: every AI message is routed to the tools node
should_use_tools_Always(last_message) ==
    IF last_message.kind = "ai" THEN "tools" ELSE "end"

should_use_tools(last_message) ==
    IF last_message.tool_calls > 0 THEN "tools" ELSE "end"

\* seq[i] for a Python index i: the position in seq, 0 for an IndexError
PyIndex(seq, i) ==
    IF i >= 0 THEN (IF i < Len(seq) THEN i + 1 ELSE 0)
    ELSE (IF 0 - i <= Len(seq) THEN Len(seq) + i + 1 ELSE 0)

\* the objects a loop body sees: a message of the thread (id: its position) ...
MessageObject(messages, pos) ==
    [py |-> "message", id |-> pos, download |-> messages[pos].download]

\* ... or a (field name, value) pair, which is what iterating over one message gives
FieldPair(name, dl) == [py |-> "tuple", id |-> 0, download |-> dl]

\* mutant: the loop runs over every message of the thread
unseen_messages_WholeThread(messages, pos) ==
    [i \in 1..Len(messages) |-> MessageObject(messages, i)]

\* unseen_messages = response["messages"][...]: ONE message, not a slice;
\* enumerate() over it yields its (field, value) pairs
unseen_messages(messages, pos) ==
    << FieldPair("content", messages[pos].download), FieldPair("additional_kwargs", FALSE),
       FieldPair("response_metadata", FALSE), FieldPair("type", FALSE),
       FieldPair("name", FALSE), FieldPair("id", FALSE) >>

\* hasattr(msg, 'content') and msg.content and "Download:" in msg.content
IsFileMessage(msg) == msg.py = "message" /\ msg.download

SetMax(S) == CHOOSE x \in S : \A y \in S : y <= x

\* lines 315-332 of DatabaseAgent.run: created_files and the new map entry
ScanForFiles(messages, map, tid) ==
    LET last == IF map[tid] # NotInMap THEN map[tid] ELSE 0
        pos == PyIndex(messages, (Len(messages) - last) - 1)
    IN  IF pos = 0
        THEN [created_files |-> <<>>, error |-> TRUE, map |-> map]
        ELSE LET items == unseen_messages(messages, pos)
                 hits == {i \in 1..Len(items) : IsFileMessage(items[i])}
                 found == SelectSeq(items, IsFileMessage)
                 file_request_msg_idx == IF hits = {} THEN last ELSE SetMax(hits) - 1
             IN  [created_files |-> [i \in 1..Len(found) |-> found[i].id],
                  error |-> FALSE,
                  map |-> [map EXCEPT ![tid] =
                              IF file_request_msg_idx = last THEN Len(messages)
                              ELSE file_request_msg_idx + last + 1]]

\* mutant: no try/except around exit_stack.aclose()
close_mcp_server_Unguarded(fails) == [logged |-> FALSE, raises |-> fails]

\* close_mcp_server catches and logs what aclose() raises
close_mcp_server(fails) == [logged |-> fails, raises |-> FALSE]

Responded == [status |-> "response", caught |-> ""]

Http500(caught) == [status |-> "http_500", caught |-> caught]

\* tool rounds made so far in this invocation
Rounds == Len(SelectSeq(steps, LAMBDA st : st.node = "tools"))

\* chat_v1 up to agent = DatabaseAgent(...); the thread names are interchangeable,
\* so the first request is taken to be on "t1"
ChatStart(t) ==
    /\ rpc \in {"idle", "done"}
    /\ nRequests < MaxRequests
    /\ nRequests = 0 => t = "t1"
    /\ nRequests' = nRequests + 1
    /\ thread_id' = t
    /\ rpc' = "constructed"
    /\ node' = "none"
    /\ steps' = <<>>
    /\ run_result' = NoRunResult
    /\ outcome' = NoOutcome
    /\ closes' = 0
    /\ close_logged' = FALSE
    /\ UNCHANGED <<processed_message_counts, checkpoint, run_start, reported>>
    /\ UNCHANGED <<engineVars, phase, in_data, in_type, in_list, in_pairs, out_err, out_art,
                   out_list, out_shapes, colorVars, reportVars>>

\* await agent.connect_to_mcp_server(): builds the graph, or raises
Connect ==
    /\ rpc = "constructed"
    /\ \/ rpc' = "connected" /\ UNCHANGED outcome
       \/ \E e \in {"ConnectionError", "Exception"} :
             outcome' = Http500(e) /\ rpc' = "finally"
    /\ UNCHANGED <<processed_message_counts, checkpoint, thread_id, node, steps, run_start,
                   run_result, reported, closes, close_logged, nRequests>>
    /\ UNCHANGED <<engineVars, phase, in_data, in_type, in_list, in_pairs, out_err, out_art,
                   out_list, out_shapes, colorVars, reportVars>>

\* self.agent.ainvoke({"messages": [HumanMessage(content=message)]}, config)
Invoke ==
    /\ rpc = "connected"
    /\ run_start' = Len(checkpoint[thread_id])
    /\ checkpoint' = [checkpoint EXCEPT ![thread_id] = Append(@, HumanMessage)]
    /\ node' = "conversation"
    /\ rpc' = "running"
    /\ UNCHANGED <<processed_message_counts, thread_id, steps, run_result, reported, outcome,
                   closes, close_logged, nRequests>>
    /\ UNCHANGED <<engineVars, phase, in_data, in_type, in_list, in_pairs, out_err, out_art,
                   out_list, out_shapes, colorVars, reportVars>>

\* the conversation node and the conditional edge after it
Conversation ==
    /\ rpc = "running" /\ node = "conversation"
    /\ \E raised \in BOOLEAN, calls \in 0..MaxToolCalls :
          LET response == handle_conversation(raised, calls)
          IN  /\ raised => calls = 0
              /\ calls > 0 => Rounds < MaxRounds
              /\ checkpoint' = [checkpoint EXCEPT ![thread_id] = Append(@, response)]
              /\ steps' = Append(steps, [node |-> "conversation",
                                          tool_calls |-> response.tool_calls,
                                          apology |-> raised])
              /\ node' = should_use_tools(response)
    /\ UNCHANGED <<processed_message_counts, rpc, thread_id, run_start, run_result, reported,
                   outcome, closes, close_logged, nRequests>>
    /\ UNCHANGED <<engineVars, phase, in_data, in_type, in_list, in_pairs, out_err, out_art,
                   out_list, out_shapes, colorVars, reportVars>>

\* the tools node: one tool message per tool call of the last message
Tools ==
    /\ rpc = "running" /\ node = "tools"
    /\ LET last_message == checkpoint[thread_id][Len(checkpoint[thread_id])]
       IN  \E results \in [1..last_message.tool_calls -> BOOLEAN] :
              checkpoint' = [checkpoint EXCEPT ![thread_id] =
                                @ \o [i \in 1..last_message.tool_calls |->
                                         ToolMessage(results[i])]]
    /\ steps' = Append(steps, [node |-> "tools", tool_calls |-> 0, apology |-> FALSE])
    /\ node' = "conversation"
    /\ UNCHANGED <<processed_message_counts, rpc, thread_id, run_start, run_result, reported,
                   outcome, closes, close_logged, nRequests>>
    /\ UNCHANGED <<engineVars, phase, in_data, in_type, in_list, in_pairs, out_err, out_art,
                   out_list, out_shapes, colorVars, reportVars>>

\* DatabaseAgent.run after ainvoke returned: lines 311-340 (342-349 on an exception)
RunReturns ==
    /\ rpc = "running" /\ node = "end"
    /\ LET scan == ScanForFiles(checkpoint[thread_id], processed_message_counts, thread_id)
       IN  /\ run_result' = [set |-> TRUE, created_files |-> scan.created_files,
                             error |-> scan.error]
           /\ processed_message_counts' = scan.map
           /\ reported' = Append(reported, [thread_id |-> thread_id,
                                            created_files |-> scan.created_files])
    /\ rpc' = "ran"
    /\ UNCHANGED <<checkpoint, thread_id, node, steps, run_start, outcome, closes,
                   close_logged, nRequests>>
    /\ UNCHANGED <<engineVars, phase, in_data, in_type, in_list, in_pairs, out_err, out_art,
                   out_list, out_shapes, colorVars, reportVars>>

\* chat_v1 lines 90-115: the response is built, or building it raises
Respond ==
    /\ rpc = "ran"
    /\ \/ outcome' = Responded
       \/ outcome' = Http500("Exception")
    /\ rpc' = "finally"
    /\ UNCHANGED <<processed_message_counts, checkpoint, thread_id, node, steps, run_start,
                   run_result, reported, closes, close_logged, nRequests>>
    /\ UNCHANGED <<engineVars, phase, in_data, in_type, in_list, in_pairs, out_err, out_art,
                   out_list, out_shapes, colorVars, reportVars>>

\* finally: await agent.close_mcp_server()
Finally ==
    /\ rpc = "finally"
    /\ \E fails \in BOOLEAN :
          LET closed == close_mcp_server(fails)
          IN  /\ close_logged' = closed.logged
              /\ outcome' = IF closed.raises THEN Http500("close_mcp_server") ELSE outcome
    /\ closes' = closes + 1
    /\ rpc' = "done"
    /\ UNCHANGED <<processed_message_counts, checkpoint, thread_id, node, steps, run_start,
                   run_result, reported, nRequests>>
    /\ UNCHANGED <<engineVars, phase, in_data, in_type, in_list, in_pairs, out_err, out_art,
                   out_list, out_shapes, colorVars, reportVars>>

\* no request made yet; the chart engine stays as constructed
InitAgent ==
    /\ Init
    /\ export_dir = "exports"
    /\ figsize = <<12, 8>>

NextAgent ==
    \/ \E t \in Threads : ChatStart(t)
    \/ Connect
    \/ Invoke
    \/ Conversation
    \/ Tools
    \/ RunReturns
    \/ Respond
    \/ Finally

SpecAgent == InitAgent /\ [][NextAgent]_vars

\* ------------------------------------------------------------------------
\* The PDF report tool (src/mcp_tools.py: create_pdf_report)
\* ------------------------------------------------------------------------

MaxSections == 2

\* a section of content_structure. drawable: _create_matplotlib_chart can draw and
\* save its data; mapping: its "data" is a JSON object; filled: table_data and
\* headers are both non-empty
Section(type, drawable, mapping, filled) ==
    [type |-> type, drawable |-> drawable, mapping |-> mapping, filled |-> filled]

SectionInputs ==
    {Section("text", FALSE, FALSE, FALSE),
     Section("chart", TRUE, TRUE, FALSE),
     Section("chart", FALSE, TRUE, FALSE),
     Section("chart", FALSE, FALSE, FALSE),
     Section("table", FALSE, FALSE, TRUE),
     Section("table", FALSE, FALSE, FALSE),
     Section("page_break", FALSE, FALSE, FALSE),
     Section("spacer", FALSE, FALSE, FALSE)}

SectionLists == UNION {[1..n -> SectionInputs] : n \in 0..MaxSections}

\* a flowable of the report; readable: reportlab can open what it refers to
Flowable(kind, i, readable) == [kind |-> kind, section |-> i, readable |-> readable]

\* title, description, metadata and the spacer after them
HeaderElements ==
    << Flowable("paragraph", 0, TRUE), Flowable("paragraph", 0, TRUE),
       Flowable("paragraph", 0, TRUE), Flowable("spacer", 0, TRUE) >>

\* _create_matplotlib_chart: the filename, or "" for None (every exception is
\* caught, that of savefig into a missing directory included)
create_matplotlib_chart(section, exists) ==
    IF section.drawable /\ exists THEN "chart.png" ELSE ""

\* chart_path = export_dir / chart_filename; export_dir / "" is export_dir itself
ChartPathOf(name) == [name |-> name, is_dir |-> name = ""]

\* chart_path and os.path.exists(chart_path): a path object is always true; the
\* file of a returned filename was just saved
PathExists(chart_path, exists) == IF chart_path.is_dir THEN exists ELSE TRUE

\* what the loop body appends for a section that raises nothing
SectionElements(section, i, exists) ==
    IF section.type = "text"
    THEN << Flowable("paragraph", i, TRUE), Flowable("spacer", i, TRUE) >>
    ELSE IF section.type = "chart"
    THEN LET chart_path == ChartPathOf(create_matplotlib_chart(section, exists))
         IN  IF PathExists(chart_path, exists)
             THEN << Flowable("paragraph", i, TRUE),
                     Flowable("image", i, ~chart_path.is_dir),
                     Flowable("spacer", i, TRUE) >>
             ELSE <<>>
    ELSE IF section.type = "table"
    THEN (IF section.filled
          THEN << Flowable("paragraph", i, TRUE), Flowable("table", i, TRUE),
                  Flowable("spacer", i, TRUE) >>
          ELSE <<>>)
    ELSE IF section.type = "page_break"
    THEN << Flowable("page_break", i, TRUE) >>
    ELSE << Flowable("spacer", i, TRUE) >>

\* chart_data.get("title", ...) on chart_data that is no mapping
TitleLookupRaises(section, exists) ==
    /\ section.type = "chart"
    /\ PathExists(ChartPathOf(create_matplotlib_chart(section, exists)), exists)
    /\ ~section.mapping

\* Image(chart_path, ...) is handed the directory
ImageOfDirectory(section, exists) ==
    /\ section.type = "chart"
    /\ ChartPathOf(create_matplotlib_chart(section, exists)).is_dir
    /\ PathExists(ChartPathOf(create_matplotlib_chart(section, exists)), exists)

\* create_pdf_report up to the loop over the sections
ReportStart ==
    /\ report = "idle"
    /\ \E s \in SectionLists, exists \in BOOLEAN :
          /\ sections' = s
          /\ exports_exists' = exists
    /\ elements' = HeaderElements
    /\ section_i' = 1
    /\ report' = "sections"
    /\ UNCHANGED <<engineVars, phase, in_data, in_type, in_list, in_pairs, out_err, out_art,
                   out_list, out_shapes, colorVars, agentVars>>

\* one pass of the loop over the sections; an exception ends the call in the
\* outer except. Image() of the directory raises either here or, when reportlab
\* opens the image lazily, in doc.build
ProcessSection ==
    /\ report = "sections"
    /\ section_i <= Len(sections)
    /\ LET section == sections[section_i]
           appended == SectionElements(section, section_i, exports_exists)
       IN  \/ /\ ~TitleLookupRaises(section, exports_exists)
              /\ elements' = elements \o appended
              /\ section_i' = section_i + 1
              /\ UNCHANGED report
           \/ /\ TitleLookupRaises(section, exports_exists)
              /\ report' = "error"
              /\ UNCHANGED <<elements, section_i>>
           \/ /\ ~TitleLookupRaises(section, exports_exists)
              /\ ImageOfDirectory(section, exports_exists)
              /\ elements' = Append(elements, appended[1])
              /\ report' = "error"
              /\ UNCHANGED section_i
    /\ UNCHANGED <<sections, exports_exists>>
    /\ UNCHANGED <<engineVars, phase, in_data, in_type, in_list, in_pairs, out_err, out_art,
                   out_list, out_shapes, colorVars, agentVars>>

\* doc.build(elements) and the return: the file is written into exports, and every
\* image is opened
DocBuild ==
    /\ report = "sections"
    /\ section_i > Len(sections)
    /\ report' = IF exports_exists /\ \A k \in 1..Len(elements) : elements[k].readable
                 THEN "created" ELSE "error"
    /\ UNCHANGED <<sections, exports_exists, section_i, elements>>
    /\ UNCHANGED <<engineVars, phase, in_data, in_type, in_list, in_pairs, out_err, out_art,
                   out_list, out_shapes, colorVars, agentVars>>

\* no report asked for yet; the chart engine stays as constructed
InitReport ==
    /\ Init
    /\ export_dir = "exports"
    /\ figsize = <<12, 8>>

NextReport ==
    \/ ReportStart
    \/ ProcessSection
    \/ DocBuild

SpecReport == InitReport /\ [][NextReport]_vars

\* ------------------------------------------------------------------------
\* Claims
\* ------------------------------------------------------------------------

\* the calls that failed while rendering or saving, after validation passed
RenderFailed(c) ==
    pc[c] = "idle" /\ callNo[c] > 0 /\ validated[c] = NoError /\ err[c] # NoError

\* C1: when validation of a create_chart call fails, the call is over with that
\* error before any rendering step: it allocated no figure, the number of open
\* figures is what it was, and the export directory holds exactly the files it
\* held when the call started.
C1_ValidationBeforeRendering ==
    \A c \in Callers :
        validated[c] # NoError =>
            /\ pc[c] = "idle"
            /\ result[c] = Raised(validated[c])
            /\ \A i \in 1..Len(figs) : figs[i].by # callNo[c]
            /\ Len(figs) = figsBefore[c]
            /\ files = filesBefore[c]

\* a kind-specific violation raised by a second call, with a file already there
C1_Witness ==
    /\ callNo[Main] = 2
    /\ chart_type[Main] = "line"
    /\ validated[Main] = ValueError("must contain only numeric values", "y_values")
    /\ files # {}

\* C2: a call whose chart_type is none of pie, bar, line, histogram ends with the
\* invalid-kind error, which carries the offending value and the allowed set,
\* whatever chart_data is.
C2_InvalidKindError ==
    \A c \in Callers :
        (callNo[c] > 0 /\ chart_type[c] \notin {"pie", "bar", "line", "histogram"}) =>
            /\ result[c].status = "raised"
            /\ result[c].err.exc = "ValueError"
            /\ result[c].err.msg = "Invalid chart_type"
            /\ result[c].err.value = chart_type[c]
            /\ result[c].err.allowed = <<"pie", "bar", "line", "histogram">>

\* an unsupported kind together with chart_data that is no mapping
C2_Witness ==
    /\ callNo[Main] > 0
    /\ chart_type[Main] = "scatter"
    /\ arg0[Main].ty = "list"
    /\ result[Main].status = "raised"

\* C3: in a sequential execution, once a create_chart call has returned or raised,
\* as many figures are open as were open when it started.
C3_FiguresReleased ==
    \A c \in Callers :
        (pc[c] = "idle" /\ callNo[c] > 0) => Len(figs) = figsBefore[c]

\* a call that failed in the drawing step, after its figure was allocated
C3_Witness ==
    /\ RenderFailed(Main)
    /\ err[Main] = RenderError("draw")
    /\ figs = <<>>

\* C4: a failure of rendering or saving after validation passed is logged and the
\* same error is raised to the caller; the call returns nothing.
C4_RenderFailureReraised ==
    \A c \in Callers :
        RenderFailed(c) =>
            /\ result[c] = Raised(err[c])
            /\ logged[c] = err[c]

\* a call whose savefig raised
C4_Witness ==
    /\ RenderFailed(Main)
    /\ err[Main] = RenderError("savefig")
    /\ result[Main].status = "raised"

\* C5: the create_matplotlib_chat tool answers 'Chart image created successfully'
\* only for a chart that was created.
C5_ToolNeverClaimsSuccessOnFailure ==
    toolReply.said = "Chart image created successfully" => toolReply.created

\* C6: every file of the export directory shows the chart of the call that wrote
\* it: the figure saved is the one that call allocated, with its chart drawn.
C6_EachCallSavesOwnFigure ==
    \A f \in files :
        /\ f.fig.by = f.by
        /\ f.fig.how = "subplots"
        /\ f.drawn

\* C7: after a create_chart call failed during rendering or saving, the export
\* directory holds no file written by that call.
C7_NoPartialArtifact ==
    \A c \in Callers :
        RenderFailed(c) => \A f \in files : f.by # callNo[c]

\* C8 as stated: any two successful calls returned distinct filenames.
C8_DistinctFilenames ==
    \A i, j \in 1..Len(returns) : i # j => returns[i].value # returns[j].value

\* C8 amended: two successful calls return the same filename exactly when uuid4
\* gave both the same eight hex digits; the artifact of a successful call is in
\* the directory under the returned name, written by that call or by a call that
\* drew the same digits.
C8_DistinctUnlessSameDigits ==
    /\ \A i, j \in 1..Len(returns) :
            (returns[i].value = returns[j].value) <=> (returns[i].uuid = returns[j].uuid)
    /\ \A i \in 1..Len(returns) :
            \E f \in files :
                /\ f.name = returns[i].value
                /\ (f.by # returns[i].call => f.name.hex = returns[i].uuid)

\* two successful calls with identical chart_data and chart_type, distinct names
C8_Witness ==
    /\ Len(returns) = 2
    /\ returns[1].asFirst /\ returns[2].asFirst
    /\ returns[1].value # returns[2].value
    /\ \E f, g \in files : f.by = 1 /\ g.by = 2

\* C9 as stated: a successful call adds exactly one file, named by the bare
\* filename it returns, and no call removes or changes a file that was there.
C9_AppendOnly ==
    \A c \in Callers :
        (pc[c] = "idle" /\ callNo[c] > 0) =>
            /\ filesBefore[c] \subseteq files
            /\ result[c].status = "returned" =>
                  /\ result[c].value.dir = ""
                  /\ result[c].value \notin FileNames(filesBefore[c])
                  /\ FileNames(files) = FileNames(filesBefore[c]) \cup {result[c].value}

\* C9 amended: no call removes a file name from the directory or touches a file
\* under another name than the one it generated; a successful call leaves one
\* complete file written by it under the bare filename it returns, a new entry
\* unless that name was already in the directory.
C9_AppendOrReplaceOwnName ==
    \A c \in Callers :
        (pc[c] = "idle" /\ callNo[c] > 0) =>
            /\ FileNames(filesBefore[c]) \subseteq FileNames(files)
            /\ \A g \in filesBefore[c] : g.name # chart_filename[c] => g \in files
            /\ result[c].status = "returned" =>
                  /\ result[c].value.dir = ""
                  /\ FileNames(files) = FileNames(filesBefore[c]) \cup {result[c].value}
                  /\ \E f \in files :
                        f.name = result[c].value /\ f.by = callNo[c] /\ f.complete

\* a successful second call that added a second file and left the first alone
C9_Witness ==
    /\ pc[Main] = "idle" /\ callNo[Main] = 2
    /\ result[Main].status = "returned"
    /\ Cardinality(filesBefore[Main]) = 1
    /\ Cardinality(files) = 2
    /\ filesBefore[Main] \subseteq files

NonEmptyList(x) == x.ty = "list" /\ Len(x.items) > 0

\* a string made of digits, '.' and '-' only, with at least one digit
DigitsDotsDashes(x) ==
    /\ x.ty = "str"
    /\ \A i \in 1..Len(x.str) : x.str[i] \in Digits \cup {".", "-"}
    /\ \E i \in 1..Len(x.str) : x.str[i] \in Digits

\* what the numeric check is said to accept
Accepted(x) == x.ty \in {"int", "float", "bool"} \/ DigitsDotsDashes(x)

AllAccepted(xs) == \A i \in 1..Len(xs) : Accepted(xs[i])

\* the first failing pie check, in the order the claim gives
PieFirstFailure(d) ==
    IF "labels" \notin KeySet(d) THEN ValueError("Pie chart requires field", "labels")
    ELSE IF "values" \notin KeySet(d) THEN ValueError("Pie chart requires field", "values")
    ELSE IF ~NonEmptyList(Get(d, "labels")) THEN ValueError("must be a non-empty list", "labels")
    ELSE IF ~NonEmptyList(Get(d, "values")) THEN ValueError("must be a non-empty list", "values")
    ELSE IF ~AllAccepted(Get(d, "values").items)
    THEN ValueError("must contain only numeric values", "values")
    ELSE IF Len(Get(d, "labels").items) # Len(Get(d, "values").items)
    THEN ValueError("must have the same length", "values")
    ELSE NoError

\* C11: pie validation reports the first failing check in the order: 'labels'
\* missing, 'values' missing, labels not a non-empty list, values not a non-empty
\* list, a value not numeric, lengths differ; it passes when none fails; 'colors'
\* and 'title' make no difference to the outcome.
C11_PieFirstFailure ==
    (phase \in {"validated", "rendered"} /\ in_type = "pie") =>
        /\ out_err = PieFirstFailure(in_data)
        /\ out_err = PieFirstFailure(MkDict(<<"labels", "values">>,
                        << IF HasKey(in_data, "labels") THEN Get(in_data, "labels") ELSE Absent,
                           IF HasKey(in_data, "values") THEN Get(in_data, "values") ELSE Absent >>))

\* 'values' without 'labels', the values not even numeric, and a title present
C11_Witness ==
    /\ phase = "validated" /\ in_type = "pie"
    /\ ~HasKey(in_data, "labels") /\ HasKey(in_data, "values") /\ HasKey(in_data, "title")
    /\ Get(in_data, "values") = PyList(<<PyStr(S_x)>>)
    /\ out_err = ValueError("Pie chart requires field", "labels")

\* the keys of the highest-priority bar shape that chart_data holds, and nothing else
HasPair(d, lk, vk) == lk \in KeySet(d) /\ vk \in KeySet(d)

TopShape(d) ==
    IF HasPair(d, "x_labels", "y_values")
    THEN PyDict(<<"x_labels", "y_values">>, <<Get(d, "x_labels"), Get(d, "y_values")>>)
    ELSE IF HasPair(d, "labels", "values")
    THEN PyDict(<<"labels", "values">>, <<Get(d, "labels"), Get(d, "values")>>)
    ELSE IF "data" \in KeySet(d)
    THEN PyDict(<<"data">>, <<Get(d, "data")>>)
    ELSE PyDict(<<>>, <<>>)

WellFormedPair(d, lk, vk) ==
    /\ NonEmptyList(Get(d, lk)) /\ NonEmptyList(Get(d, vk))
    /\ AllAccepted(Get(d, vk).items)
    /\ Len(Get(d, lk).items) = Len(Get(d, vk).items)

\* C12: for bar charts the shapes are tried in the order (x_labels, y_values),
\* (labels, values), data: the outcome of validation and what is rendered are
\* those of the highest-priority shape present taken alone, so a lower-priority
\* shape makes no difference even when it is malformed.
C12_BarShapePriority ==
    (phase \in {"validated", "rendered"} /\ in_type = "bar") =>
        /\ out_err = Validate(TopShape(in_data), "bar")
        /\ (HasPair(in_data, "x_labels", "y_values")
                /\ WellFormedPair(in_data, "x_labels", "y_values")) => out_err = NoError
        /\ (~HasPair(in_data, "x_labels", "y_values") /\ HasPair(in_data, "labels", "values")
                /\ WellFormedPair(in_data, "labels", "values")) => out_err = NoError
        /\ phase = "rendered" =>
              /\ out_art = ChartArt(TopShape(in_data), "bar")
              /\ HasPair(in_data, "x_labels", "y_values") =>
                    out_art.labels = Get(in_data, "x_labels").items
              /\ (~HasPair(in_data, "x_labels", "y_values")
                      /\ HasPair(in_data, "labels", "values")) =>
                    out_art.labels = Get(in_data, "labels").items

\* a well-formed (x_labels, y_values) is rendered although (labels, values) holds a
\* non-numeric value and 'data' mixes a bare value with a tuple
C12_Witness ==
    /\ phase = "rendered" /\ in_type = "bar"
    /\ HasPair(in_data, "x_labels", "y_values")
    /\ Get(in_data, "x_labels") = PyList(<<PyStr(S_A), PyStr(S_B)>>)
    /\ Get(in_data, "y_values") = PyList(<<PyInt(1), PyInt(2)>>)
    /\ HasKey(in_data, "labels")
    /\ HasKey(in_data, "values") /\ Get(in_data, "values") = PyList(<<PyInt(1), PyStr(S_x)>>)
    /\ HasKey(in_data, "data")
    /\ Get(in_data, "data") = PyList(<<PyInt(1), PyTuple(<<PyStr(S_A), PyInt(1)>>)>>)
    /\ out_art.labels = <<PyStr(S_A), PyStr(S_B)>>
    /\ out_art.values = <<PyInt(1), PyInt(2)>>

MissingBarFields == ValueError("Bar chart requires one of", "")

\* C13: bar validation fails with the missing-bar-fields error exactly when
\* chart_data holds none of the three shapes, a paired shape being present only
\* when both of its keys are.
C13_MissingBarFields ==
    (phase \in {"validated", "rendered"} /\ in_type = "bar") =>
        (out_err = MissingBarFields
            <=> /\ ~HasPair(in_data, "x_labels", "y_values")
                /\ ~HasPair(in_data, "labels", "values")
                /\ "data" \notin KeySet(in_data))

\* 'x_labels' without 'y_values' and 'values' without 'labels', no 'data'
C13_Witness ==
    /\ phase = "validated" /\ in_type = "bar"
    /\ KeySet(in_data) = {"x_labels", "values"}
    /\ out_err = MissingBarFields

\* the three uniform sub-shapes of a bar 'data' list
AllTwoTuples(items) ==
    \A i \in 1..Len(items) : items[i].ty = "tuple" /\ Len(items[i].items) = 2

AllMappingsSameKeys(items) ==
    \A i \in 1..Len(items) :
        /\ items[i].ty = "dict"
        /\ Cardinality(KeySet(items[i])) >= 2
        /\ KeySet(items[i]) = KeySet(items[1])

AllBareNumeric(items) == \A i \in 1..Len(items) : Accepted(items[i])

UniformData(items) ==
    AllTwoTuples(items) \/ AllMappingsSameKeys(items) \/ AllBareNumeric(items)

OnlyDataList(d) ==
    d.ty = "dict" /\ KeySet(d) = {"data"} /\ NonEmptyList(Get(d, "data"))

\* C14: a bar chart given through 'data' is rejected whenever the elements are
\* not uniformly 2-tuples, or mappings with at least 2 keys and one key set, or
\* bare numeric values, wherever in the list the odd element stands.
C14_InconsistentDataRejected ==
    (phase \in {"validated", "rendered"} /\ in_type = "bar" /\ OnlyDataList(in_data)) =>
        (~UniformData(Get(in_data, "data").items) => out_err.exc = "ValueError")

\* a mapping whose keys differ from those of the first element, in last position
C14_Witness ==
    /\ phase = "validated" /\ in_type = "bar" /\ OnlyDataList(in_data)
    /\ Get(in_data, "data") =
          PyList(<<D_name_value(PyStr(S_A), PyInt(1)),
                   PyDict(<<"label", "value">>, <<PyStr(S_A), PyInt(1)>>)>>)
    /\ out_err = ValueError("all data dictionaries must have the same keys", "data")

\* a bare value in first position followed by a 2-tuple
C14_WitnessOddFirst ==
    /\ phase = "validated" /\ in_type = "bar" /\ OnlyDataList(in_data)
    /\ Get(in_data, "data") = PyList(<<PyInt(1), PyTuple(<<PyStr(S_A), PyInt(1)>>)>>)
    /\ out_err.exc = "ValueError"

LinePasses(d) ==
    /\ HasPair(d, "x_values", "y_values")
    /\ NonEmptyList(Get(d, "x_values")) /\ NonEmptyList(Get(d, "y_values"))
    /\ AllAccepted(Get(d, "x_values").items) /\ AllAccepted(Get(d, "y_values").items)
    /\ Len(Get(d, "x_values").items) = Len(Get(d, "y_values").items)

\* C15: line validation passes exactly when 'x_values' and 'y_values' are both
\* present, both non-empty lists, both fully numeric and of equal length; with
\* equal lengths and a non-numeric element in y_values only, the error is the
\* non-numeric error on y_values.
C15_LineValidation ==
    (phase \in {"validated", "rendered"} /\ in_type = "line") =>
        /\ out_err = NoError <=> LinePasses(in_data)
        /\ ( /\ HasPair(in_data, "x_values", "y_values")
             /\ NonEmptyList(Get(in_data, "x_values")) /\ NonEmptyList(Get(in_data, "y_values"))
             /\ Len(Get(in_data, "x_values").items) = Len(Get(in_data, "y_values").items)
             /\ AllAccepted(Get(in_data, "x_values").items)
             /\ ~AllAccepted(Get(in_data, "y_values").items) )
           => out_err = ValueError("must contain only numeric values", "y_values")

\* x_values [1, "1.5"], y_values [1, "x"]
C15_Witness ==
    /\ phase = "validated" /\ in_type = "line"
    /\ HasPair(in_data, "x_values", "y_values")
    /\ Get(in_data, "x_values") = PyList(<<PyInt(1), PyStr(S_num)>>)
    /\ Get(in_data, "y_values") = PyList(<<PyInt(1), PyStr(S_x)>>)
    /\ out_err = ValueError("must contain only numeric values", "y_values")

InvalidBinCount == ValueError("must be a positive integer", "bins")

\* an integer greater than zero; Python's bool is a subclass of int and True is
\* the integer 1, False the integer 0
PositiveInteger(b) == b.ty \in {"int", "bool"} /\ b.scale = 0 /\ b.num >= 1

HistogramDataOk(d) ==
    /\ "data" \in KeySet(d)
    /\ NonEmptyList(Get(d, "data"))
    /\ AllAccepted(Get(d, "data").items)

\* C16: histogram validation passes exactly when 'data' is present, a non-empty
\* list and fully numeric, and 'bins' is absent or a positive integer; with good
\* data, a 'bins' that is zero, negative or not an integer fails with the
\* invalid-bin-count error; with bad data the failure is never that error.
C16_HistogramValidation ==
    (phase \in {"validated", "rendered"} /\ in_type = "histogram") =>
        /\ out_err = NoError
              <=> /\ HistogramDataOk(in_data)
                  /\ ("bins" \in KeySet(in_data) => PositiveInteger(Get(in_data, "bins")))
        /\ (HistogramDataOk(in_data) /\ "bins" \in KeySet(in_data)
                /\ ~PositiveInteger(Get(in_data, "bins"))) => out_err = InvalidBinCount
        /\ ~HistogramDataOk(in_data) => out_err \notin {NoError, InvalidBinCount}

\* data [1, 1] with bins 0
C16_Witness ==
    /\ phase = "validated" /\ in_type = "histogram"
    /\ HistogramDataOk(in_data) /\ Get(in_data, "data") = PyList(<<PyInt(1), PyInt(1)>>)
    /\ HasKey(in_data, "bins") /\ Get(in_data, "bins") = PyInt(0)
    /\ out_err = InvalidBinCount

NonNumericValue(f) == ValueError("must contain only numeric values", f)

\* C17: the numeric check accepts an element exactly when it is a native number
\* or a string made of digits, '.' and '-' with at least one digit; "1.2.3" and
\* "--5" are accepted, "", "." and "-" and strings with another character are
\* rejected; a list passes only if every element is accepted.
C17_NumericCheck ==
    phase = "converted" =>
        /\ out_err = NoError <=> AllAccepted(in_list)
        /\ out_err # NoError => out_err = NonNumericValue("values")
        /\ (\E i \in 1..Len(in_list) :
               in_list[i] \in {PyStr(S_empty), PyStr(S_dot), PyStr(S_minus), PyStr(S_1a),
                               PyStr(S_x), PyNone}) => out_err = NonNumericValue("values")
        /\ (\A i \in 1..Len(in_list) :
               in_list[i] \in {PyStr(S_multidot), PyStr(S_dminus5), PyStr(S_5minus),
                               PyStr(S_num), PyStr(S_neg5), PyStr(S_12),
                               PyInt(3), PyFloat(25, 1)}) => out_err = NoError

\* the list ["1.2.3", "--5"] passes
C17_Witness ==
    /\ phase = "converted"
    /\ in_list = <<PyStr(S_multidot), PyStr(S_dminus5)>>
    /\ out_err = NoError

\* the list [3, "-"] is rejected for its second element
C17_WitnessRejected ==
    /\ phase = "converted"
    /\ in_list = <<PyInt(3), PyStr(S_minus)>>
    /\ out_err = NonNumericValue("values")

\* the number of items in the chart_data of a pie or bar chart that passed validation
InputCount(d, t) ==
    IF t = "pie" THEN Len(Get(d, "values").items)
    ELSE IF HasPair(d, "x_labels", "y_values") THEN Len(Get(d, "y_values").items)
    ELSE IF HasPair(d, "labels", "values") THEN Len(Get(d, "values").items)
    ELSE Len(Get(d, "data").items)

\* C18: for every pie or bar chart_data that passes validation, the labels and
\* the values handed to rendering are non-empty, of equal length, and as many as
\* the input items; numeric conversion never changes the length of a list.
C18_LabelAndValueCounts ==
    /\ (phase = "rendered" /\ in_type \in {"pie", "bar"}) =>
          /\ Len(out_art.labels) > 0
          /\ Len(out_art.labels) = Len(out_art.values)
          /\ Len(out_art.values) = InputCount(in_data, in_type)
    /\ phase = "converted" => Len(out_list) = Len(in_list)

\* bar values ["1.2.3", 2] pass validation and fall back to [1, 1]
C18_Witness ==
    /\ phase = "rendered" /\ in_type = "bar"
    /\ HasPair(in_data, "x_labels", "y_values")
    /\ Get(in_data, "y_values") = PyList(<<PyStr(S_multidot), PyInt(2)>>)
    /\ out_art.labels = <<PyStr(S_A), PyStr(S_B)>>
    /\ out_art.values = <<PyInt(1), PyInt(1)>>

\* C19: the same ordered (label, value) pairs given as x_labels + y_values, as
\* labels + values, as a 'data' list of 2-tuples or as a 'data' list of two-key
\* mappings pass validation and normalize to the same label list and value list;
\* given as a 'data' list of bare values they normalize to the same value list.
C19_ShapeIndependence ==
    phase = "extracted" =>
        /\ \A k \in 1..4 :
              /\ out_shapes[k].err = NoError
              /\ out_shapes[k].norm = <<Column(in_pairs, 1), Column(in_pairs, 2)>>
        /\ out_shapes[5].err = NoError
        /\ out_shapes[5].norm[2] = Column(in_pairs, 2)
        /\ Len(out_shapes[5].norm[1]) = Len(in_pairs)

\* the pairs (B, 2), (A, "1.5"); the second mapping lists its value key first
C19_Witness ==
    /\ phase = "extracted"
    /\ in_pairs = << <<PyStr(S_B), PyInt(2)>>, <<PyStr(S_A), PyStr(S_num)>> >>
    /\ out_shapes[4].norm = << <<PyStr(S_B), PyStr(S_A)>>, <<PyInt(2), PyStr(S_num)>> >>
    /\ out_shapes[3].norm = out_shapes[4].norm
    /\ out_shapes[1].norm = out_shapes[4].norm

\* a string the numeric check accepts and float() refuses: more than one '.', or
\* a '-' anywhere but in front
Unparsable(x) ==
    /\ DigitsDotsDashes(x)
    /\ \/ \E i, j \in 1..Len(x.str) : i # j /\ x.str[i] = "." /\ x.str[j] = "."
       \/ \E i \in 2..Len(x.str) : x.str[i] = "-"

\* the value of each well-formed element
OwnValue(x) ==
    IF x = PyStr(S_12) THEN PyFloat(12, 0)
    ELSE IF x = PyStr(S_neg5) THEN PyFloat(0 - 5, 0)
    ELSE IF x = PyStr(S_num) THEN PyFloat(15, 1)
    ELSE x

\* C20: _convert_to_numeric turns an element that is neither a native number nor
\* a numeric-looking string into 0 and keeps the value of every other element;
\* if float() throws for any element, every element of the result is 1; the
\* result has the input's length in both cases.
C20_NumericCoercion ==
    phase = "converted" =>
        /\ Len(out_list) = Len(in_list)
        /\ IF \E i \in 1..Len(in_list) : Unparsable(in_list[i])
           THEN \A i \in 1..Len(out_list) : out_list[i] = PyInt(1)
           ELSE \A i \in 1..Len(out_list) :
                   out_list[i] = IF Accepted(in_list[i]) THEN OwnValue(in_list[i]) ELSE PyInt(0)

\* [3, "1.2.3"] becomes [1, 1]
C20_Witness ==
    /\ phase = "converted"
    /\ in_list = <<PyInt(3), PyStr(S_multidot)>>
    /\ out_list = <<PyInt(1), PyInt(1)>>

\* ["x", "1.5"] becomes [0, 1.5]
C20_WitnessDefault ==
    /\ phase = "converted"
    /\ in_list = <<PyStr(S_x), PyStr(S_num)>>
    /\ out_list = <<PyInt(0), PyFloat(15, 1)>>

\* C21: for a colour with channels r, g, b in 0..1 and luminance
\* L = 0.299 r + 0.587 g + 0.114 b, the text colour is black when L > 0.5 and
\* white when L <= 0.5; it is always black or white and is decided by the first
\* three channels alone.
C21_ContrastRule ==
    phase = "contrasted" =>
        /\ out_color \in {"black", "white"}
        /\ Len(in_color) >= 3 =>
              LET twiceL == 2 * (299 * in_color[1] + 587 * in_color[2] + 114 * in_color[3])
              IN  /\ twiceL > 1000 * ChannelScale => out_color = "black"
                  /\ twiceL <= 1000 * ChannelScale => out_color = "white"

\* mid grey with an alpha channel: luminance exactly 0.5 gives white
C21_Witness ==
    /\ phase = "contrasted"
    /\ Len(in_color) = 4
    /\ \A k \in 1..3 : 2 * in_color[k] = ChannelScale
    /\ in_color[4] = ChannelScale
    /\ out_color = "white"

\* ---- claims about create_chart's documentation and the bar shapes ----

\* C22: the kind of error create_chart raises tells the cause: ValueError when the
\* chart_data format is invalid or a required field is missing, TypeError when
\* chart_type is not supported or chart_data is of the wrong type.
C22_ErrorKindTellsCause ==
    \A c \in Callers :
        (callNo[c] > 0 /\ result[c].status = "raised" /\ validated[c] # NoError) =>
            /\ ~IsValidChartType(chart_type[c]) => result[c].err.exc = "TypeError"
            /\ (IsValidChartType(chart_type[c]) /\ arg0[c].ty # "dict") =>
                  result[c].err.exc = "TypeError"
            /\ (IsValidChartType(chart_type[c]) /\ arg0[c].ty = "dict") =>
                  result[c].err.exc = "ValueError"

\* a bar 'data' list of mappings with at least two keys and one key set
MappingData(d) == OnlyDataList(d) /\ AllMappingsSameKeys(Get(d, "data").items)

\* the values of the mappings under the k-th key of the first mapping
UnderKeyOfFirst(d, k) ==
    LET items == Get(d, "data").items
    IN  [i \in 1..Len(items) |-> Get(items[i], items[1].keys[k])]

\* C23: for bar 'data' given as mappings, the label key and the value key are
\* the first and the second key of the first element, applied to every element
\* whatever order it lists its keys in; validation checks exactly the values
\* under the value key, and those are the values rendered.
C23_MappingKeysOfFirstElement ==
    (phase \in {"validated", "rendered"} /\ in_type = "bar" /\ MappingData(in_data)) =>
        /\ out_err = NoError <=> AllAccepted(UnderKeyOfFirst(in_data, 2))
        /\ out_err # NoError => out_err = NonNumericValue("data dictionary values")
        /\ phase = "rendered" =>
              /\ out_art.labels = UnderKeyOfFirst(in_data, 1)
              /\ (\A i \in 1..Len(out_art.values) :
                     UnderKeyOfFirst(in_data, 2)[i].ty = "int")
                    => out_art.values = UnderKeyOfFirst(in_data, 2)

\* [{name: A, value: 1}, {value: 2, name: B}] is rendered as ([A, B], [1, 2])
C23_Witness ==
    /\ phase = "rendered" /\ in_type = "bar" /\ MappingData(in_data)
    /\ Get(in_data, "data") =
          PyList(<<D_name_value(PyStr(S_A), PyInt(1)), D_value_name(PyStr(S_B), PyInt(2))>>)
    /\ out_art.labels = <<PyStr(S_A), PyStr(S_B)>>
    /\ out_art.values = <<PyInt(1), PyInt(2)>>

\* "Item 1", "Item 2", ... written out
ItemNames ==
    << PyStr(<<"I", "t", "e", "m", " ", "1">>), PyStr(<<"I", "t", "e", "m", " ", "2">>),
       PyStr(<<"I", "t", "e", "m", " ", "3">>), PyStr(<<"I", "t", "e", "m", " ", "4">>) >>

BareData(d) == OnlyDataList(d) /\ AllBareNumeric(Get(d, "data").items)

\* C24: for bar 'data' given as n bare numeric values the labels are "Item 1",
\* ..., "Item n" in order, one per value, and the values are the input values in
\* their original order.
C24_ItemLabels ==
    /\ (phase = "rendered" /\ in_type = "bar" /\ BareData(in_data)) =>
          LET n == Len(Get(in_data, "data").items)
          IN  /\ out_art.labels = SubSeq(ItemNames, 1, n)
              /\ Len(out_art.values) = n
              /\ \A i \in 1..n :
                    Get(in_data, "data").items[i].ty = "int"
                        => out_art.values[i] = Get(in_data, "data").items[i]
    /\ phase = "extracted" =>
          out_shapes[5].norm = <<SubSeq(ItemNames, 1, Len(in_pairs)), Column(in_pairs, 2)>>

\* {"data": [1, 2, 3]} gets the labels Item 1, Item 2, Item 3
C24_Witness ==
    /\ phase = "rendered" /\ in_type = "bar" /\ BareData(in_data)
    /\ Get(in_data, "data") = PyList(<<PyInt(1), PyInt(2), PyInt(3)>>)
    /\ out_art.labels = SubSeq(ItemNames, 1, 3)
    /\ out_art.values = <<PyInt(1), PyInt(2), PyInt(3)>>

\* the shape a valid bar chart_data was checked as
CheckedShape(d) ==
    IF HasPair(d, "x_labels", "y_values") THEN "x_y"
    ELSE IF HasPair(d, "labels", "values") THEN "labels_values"
    ELSE IF AllTwoTuples(Get(d, "data").items) THEN "tuples"
    ELSE IF AllMappingsSameKeys(Get(d, "data").items) THEN "mappings"
    ELSE "bare"

\* the labels each shape carries
LabelsOfShape(d, shape) ==
    IF shape = "x_y" THEN Get(d, "x_labels").items
    ELSE IF shape = "labels_values" THEN Get(d, "labels").items
    ELSE IF shape = "tuples"
    THEN [i \in 1..Len(Get(d, "data").items) |-> Get(d, "data").items[i].items[1]]
    ELSE IF shape = "mappings" THEN UnderKeyOfFirst(d, 1)
    ELSE SubSeq(ItemNames, 1, Len(Get(d, "data").items))

\* the values each shape carries
ValuesOfShape(d, shape) ==
    IF shape = "x_y" THEN Get(d, "y_values").items
    ELSE IF shape = "labels_values" THEN Get(d, "values").items
    ELSE IF shape = "tuples"
    THEN [i \in 1..Len(Get(d, "data").items) |-> Get(d, "data").items[i].items[2]]
    ELSE IF shape = "mappings" THEN UnderKeyOfFirst(d, 2)
    ELSE Get(d, "data").items

NoDataLabels == <<PyStr(<<"N", "o", " ", "D", "a", "t", "a">>)>>

\* C27: once bar validation has succeeded, what is rendered comes from the shape
\* that validation checked (the pair, or within 'data' the tuples, the mappings
\* or the bare values): its labels, and its values, which all passed the numeric
\* check; the fallback (["No Data"], [0]) is never what is rendered.
C27_NormalizationFollowsValidation ==
    (phase = "rendered" /\ in_type = "bar") =>
        LET shape == CheckedShape(in_data)
        IN  /\ out_art.labels = LabelsOfShape(in_data, shape)
            /\ AllAccepted(ValuesOfShape(in_data, shape))
            /\ \A i \in 1..Len(out_art.values) :
                  ValuesOfShape(in_data, shape)[i].ty = "int"
                      => out_art.values[i] \in {ValuesOfShape(in_data, shape)[i], PyInt(1)}
            /\ out_art.labels # NoDataLabels

\* valid (labels, values) next to an incomplete (x_labels, -) and a 'data' list:
\* validation and normalization both settle on (labels, values)
C27_Witness ==
    /\ phase = "rendered" /\ in_type = "bar"
    /\ KeySet(in_data) = {"x_labels", "labels", "values", "data"}
    /\ Get(in_data, "data") = PyList(<<PyInt(1), PyInt(2), PyInt(3)>>)
    /\ Get(in_data, "values") = PyList(<<PyInt(1), PyInt(2)>>)
    /\ out_art.labels = <<PyStr(S_A), PyStr(S_B)>>
    /\ out_art.values = <<PyInt(1), PyInt(2)>>

\* ---- claims about the chat endpoint and the agent (SpecAgent) ----

\* the messages the finished run added to its thread that contain "Download:"
FilesOfThisRun ==
    {i \in (run_start + 1)..Len(checkpoint[thread_id]) : checkpoint[thread_id][i].download}

RunFinished == rpc \in {"ran", "finally", "done"} /\ run_result.set

Range(f) == {f[i] : i \in DOMAIN f}

\* C25: over the runs of one thread sharing processed_message_counts, a message
\* containing "Download:" is in created_files of at most one run.
C25_FileReportedAtMostOnce ==
    \A i, j \in 1..Len(reported) :
        (i # j /\ reported[i].thread_id = reported[j].thread_id) =>
            Range(reported[i].created_files) \cap Range(reported[j].created_files) = {}

\* two finished runs on one thread, the first of which produced a file
C25_Witness ==
    /\ Len(reported) = 2
    /\ reported[1].thread_id = reported[2].thread_id
    /\ \E i \in 1..Len(checkpoint["t1"]) :
          /\ checkpoint["t1"][i].download
          /\ \E k \in (i + 1)..Len(checkpoint["t1"]) : checkpoint["t1"][k].kind = "human"

\* C26: a run with a thread_id returns every file generated during that run (each
\* message containing "Download:" that the run added to the thread is in
\* created_files), and afterwards the map entry of the thread counts all the
\* messages of the thread.
C26_RunReturnsItsFiles ==
    RunFinished =>
        /\ FilesOfThisRun \subseteq Range(run_result.created_files)
        /\ processed_message_counts[thread_id] = Len(checkpoint[thread_id])

\* C29: every chat_v1 request that has constructed its DatabaseAgent calls
\* close_mcp_server exactly once before it completes, on every path (run made,
\* connecting failed with ConnectionError or with another exception, building
\* the response failed); a failure inside close_mcp_server is logged and leaves
\* the outcome of the request as it was.
C29_ClosedExactlyOnce ==
    /\ rpc \in {"constructed", "connected", "running", "ran", "finally"} =>
          closes = 0 /\ ~close_logged
    /\ rpc = "finally" => outcome.status \in {"response", "http_500"}
    /\ rpc = "done" =>
          /\ closes = 1
          /\ outcome.status \in {"response", "http_500"}
          /\ outcome.caught \in {"", "ConnectionError", "Exception"}
          /\ outcome.status = "response" => run_result.set
          /\ outcome.caught = "ConnectionError" => ~run_result.set

\* connecting failed with ConnectionError and closing failed too
C29_Witness ==
    /\ rpc = "done"
    /\ outcome = Http500("ConnectionError")
    /\ closes = 1
    /\ close_logged

StepIs(i, n) == steps[i].node = n

\* C30: in the agent graph a tools step comes only right after a conversation step
\* whose message has tool calls, every tools step is followed by a conversation
\* step, and the invocation ends exactly when a conversation step produces a
\* message without tool calls; the apology of handle_conversation has no tool
\* calls, so the invocation ends at that step.
C30_GraphRouting ==
    /\ \A i \in 1..Len(steps) :
          /\ StepIs(i, "tools") =>
                i > 1 /\ StepIs(i - 1, "conversation") /\ steps[i - 1].tool_calls > 0
          /\ (StepIs(i, "tools") /\ i < Len(steps)) => StepIs(i + 1, "conversation")
          /\ (StepIs(i, "conversation") /\ i < Len(steps)) =>
                steps[i].tool_calls > 0 /\ StepIs(i + 1, "tools")
          /\ steps[i].apology => steps[i].tool_calls = 0 /\ i = Len(steps)
    /\ Len(steps) > 0 =>
          LET last == steps[Len(steps)]
          IN  /\ node = "end" <=> (last.node = "conversation" /\ last.tool_calls = 0)
              /\ node = "tools" <=> (last.node = "conversation" /\ last.tool_calls > 0)
              /\ node = "conversation" <=> last.node = "tools"
    /\ (rpc = "running" /\ Len(steps) = 0) => node = "conversation"
    /\ RunFinished => node = "end"

\* a tool round, then a failure in the conversation node ends the invocation
C30_Witness ==
    /\ rpc = "running" /\ node = "end"
    /\ Len(steps) = 3
    /\ steps[1].tool_calls > 0
    /\ StepIs(2, "tools")
    /\ steps[3].apology

\* claims about the PDF report tool (SpecReport)

\* _create_matplotlib_chart returned None for the chart section j
FailedChart(j) ==
    sections[j].type = "chart" /\ create_matplotlib_chart(sections[j], exports_exists) = ""

\* the flowables the report holds for section j
ElementsOf(j) == SelectSeq(elements, LAMBDA e : e.section = j)

\* C28: in create_pdf_report a chart section whose chart creation fails
\* (_create_matplotlib_chart returns None) is skipped: the report gets no heading
\* and no image for it, and, where the exports directory is there to write into,
\* the call ends with the report created and holding the flowables of every
\* other section.
C28_FailedChartSkipped ==
    /\ \A j \in 1..Len(sections) : FailedChart(j) => ElementsOf(j) = <<>>
    /\ (report \in {"created", "error"} /\ exports_exists) =>
          /\ report = "created"
          /\ \A j \in 1..Len(sections) :
                ~FailedChart(j) =>
                    ElementsOf(j) = SectionElements(sections[j], j, exports_exists)

====
